---- MODULE Spec2Model ----
(***************************************************************************)
(* db-probe: the probing engine of internal/prober/prober.go, the metrics  *)
(* update surface it calls and the process wiring of cmd/main.go.          *)
(*                                                                         *)
(* Text.  Go strings are modelled as TLA+ strings and searched the way     *)
(* strings.Contains searches them.  The module is ASCII only, so every     *)
(* run of CJK characters of a Go literal is written as its pinyin inside   *)
(* braces, e.g. "TCP{lianjie}" for the stage name TCP + lian jie.  Braces   *)
(* occur in no indicator and the pinyin words contain no indicator, so a   *)
(* placeholder matches exactly what the CJK text matches: nothing.         *)
(*                                                                         *)
(* Time.  Instants are integers, one unit standing for 50 ms, so that the  *)
(* 0.05 s ping threshold of the reconnect heuristic is one unit.           *)
(***************************************************************************)
EXTENDS Integers, Sequences, FiniteSets, TLC

(***************************************************************************)
(* strings.ToLower, strings.Contains, strings.Index                        *)
(***************************************************************************)
LowerChar(c) ==
    CASE c = "A" -> "a" [] c = "B" -> "b" [] c = "C" -> "c" [] c = "D" -> "d"
      [] c = "E" -> "e" [] c = "F" -> "f" [] c = "G" -> "g" [] c = "H" -> "h"
      [] c = "I" -> "i" [] c = "J" -> "j" [] c = "K" -> "k" [] c = "L" -> "l"
      [] c = "M" -> "m" [] c = "N" -> "n" [] c = "O" -> "o" [] c = "P" -> "p"
      [] c = "Q" -> "q" [] c = "R" -> "r" [] c = "S" -> "s" [] c = "T" -> "t"
      [] c = "U" -> "u" [] c = "V" -> "v" [] c = "W" -> "w" [] c = "X" -> "x"
      [] c = "Y" -> "y" [] c = "Z" -> "z" [] OTHER -> c

RECURSIVE ToLower(_)
ToLower(s) ==
    CHOOSE r \in { IF Len(v) = 0 THEN ""
                   ELSE IF Len(v) = 1 THEN LowerChar(v)
                   ELSE LET h == Len(v) \div 2
                        IN  ToLower(SubSeq(v, 1, h))
                               \o ToLower(SubSeq(v, h + 1, Len(v)))
                   : v \in {s} } : TRUE

\* strings.Contains(s, sub)
Contains(s, sub) ==
    \E v \in {s} :
        \E i \in 1..(Len(v) - Len(sub) + 1) : SubSeq(v, i, i + Len(sub) - 1) = sub

\* strings.Index(s, sub), 0-based as in Go, NoIndex when sub does not occur
NoIndex == -1

Index(s, sub) ==
    CHOOSE r \in
        { LET n == Len(v) - Len(sub) + 1
          IN  IF \A i \in 1..n : SubSeq(v, i, i + Len(sub) - 1) # sub
              THEN NoIndex
              ELSE (CHOOSE i \in 1..n :
                       /\ SubSeq(v, i, i + Len(sub) - 1) = sub
                       /\ \A j \in 1..(i - 1) : SubSeq(v, j, j + Len(sub) - 1) # sub) - 1
          : v \in {s} } : TRUE

(***************************************************************************)
(* Errors.  A Go error value is nil or carries its Error() text and, when  *)
(* errors.Unwrap returns non-nil, the text of the error it wraps.          *)
(***************************************************************************)
NilError == [isNil |-> TRUE, msg |-> "", wraps |-> FALSE, inner |-> ""]

NewError(m) == [isNil |-> FALSE, msg |-> m, wraps |-> FALSE, inner |-> ""]

WrapError(m, in) == [isNil |-> FALSE, msg |-> m, wraps |-> TRUE, inner |-> in]

(***************************************************************************)
(* The stage names analyzeError returns                                    *)
(***************************************************************************)
StageNone == ""
StageTCP == "TCP{lianjie}"
StageHandshake == "{xieyi-woshou}"
StageAuth == "{renzheng}"
StageSQL == "SQL{zhixing}"
StageTimeout == "{chaoshi}"
StageOracle == "Oracle{xieyi}"
StageMySQL == "MySQL{xieyi}"
\* a default bucket left without a stage name
StageUnknownEmpty == ""
StageUnknown == "{weizhi-jieduan}"

\* a suffix appended whenever there is an underlying text, equal or not
UnderlyingSuffixAlways(errMsg, underlyingErrMsg) ==
    IF underlyingErrMsg # ""
    THEN " ({diceng-cuowu}: " \o underlyingErrMsg \o ")"
    ELSE ""

\* the suffix every branch appends: " (diceng cuowu: %s)"
UnderlyingSuffix(errMsg, underlyingErrMsg) ==
    IF underlyingErrMsg # "" /\ underlyingErrMsg # errMsg
    THEN " ({diceng-cuowu}: " \o underlyingErrMsg \o ")"
    ELSE ""

\* the conditions of the if-chain, on the lower-cased text
IsTCPError(l) ==
    \/ Contains(l, "connection refused")
    \/ Contains(l, "no such host")
    \/ Contains(l, "network is unreachable")
    \/ (Contains(l, "timeout") /\ Contains(l, "dial"))

IsEOFError(l) == Contains(l, "eof") \/ Contains(l, "end of file")

IsAuthError(l) ==
    \/ Contains(l, "access denied")
    \/ Contains(l, "invalid credentials")
    \/ Contains(l, "authentication failed")
    \/ Contains(l, "ora-01017")
    \/ Contains(l, "ora-1017")
    \/ Contains(l, "1045")

IsSQLError(l) ==
    \/ Contains(l, "sql")
    \/ Contains(l, "syntax error")
    \/ Contains(l, "table")
    \/ Contains(l, "column")

IsOracleCancel(l) ==
    \/ Contains(l, "ora-01013")
    \/ Contains(l, "ora-1013")
    \/ Contains(l, "user requested cancel")

IsOracleCode(l) == Contains(l, "ora-")

IsMySQLCode(l) ==
    Contains(l, "error") /\ (\/ Contains(l, "1045")
                             \/ Contains(l, "2003")
                             \/ Contains(l, "2006"))

IsTimeoutError(l) ==
    Contains(l, "context deadline exceeded") \/ Contains(l, "timeout")

\* the ORA code token appended to the Oracle protocol detail
OraCodeSuffix(l) ==
    LET idx    == Index(l, "ora-")
        rest   == SubSeq(l, idx + 1, Len(l))
        endSp  == Index(rest, " ")
        endCol == Index(rest, ":")
    IN  IF idx = NoIndex THEN ""
        ELSE IF endSp # NoIndex
             THEN " ({cuowuma}: " \o SubSeq(rest, 1, endSp) \o ")"
             ELSE IF endCol # NoIndex
                  THEN " ({cuowuma}: " \o SubSeq(rest, 1, endCol) \o ")"
                  ELSE ""

HandshakeHint(dbType) ==
    IF dbType = "oracle"
    THEN "{.keneng-yuanyin:}1) service_name{bu-zhengque} 2) Oracle listener{wei-qidong} 3) {wangluo-zhongduan} 4) {chaoshi-shijian-guoduan}"
    ELSE "{.keneng-yuanyin:}1) {shujuku-fuwu-wei-qidong} 2) {wangluo-zhongduan} 3) {chaoshi-shijian-guoduan}"

\* a cancel hint that stops before the recommendation
OracleCancelHintNoAdvice ==
    "{.keneng-yuanyin:}1) {chaoshi-shijian-guoduan} 2) {wangluo-yanchi-jiaogao} 3) {shujuku-xiangying-man}"

OracleCancelHint ==
    "{.keneng-yuanyin:}1) {chaoshi-shijian-guoduan} 2) {wangluo-yanchi-jiaogao} 3) {shujuku-xiangying-man.jianyi-zengjia} probe_timeout {peizhi}"

\* the if-chain of analyzeError: errMsg, its lower-cased form l and the
\* suffix for the unwrapped error are computed by the caller
RuleChain(errMsg, l, suffix, dbType) ==
        IF IsTCPError(l)
        THEN [stage   |-> StageTCP,
              details |-> "{wufa-jianli}TCP{lianjie}: " \o errMsg \o suffix]
        ELSE IF IsEOFError(l)
        THEN [stage   |-> StageHandshake,
              details |-> "{xieyi-woshou-shibai} (EOF): " \o errMsg
                          \o HandshakeHint(dbType) \o suffix]
        ELSE IF IsAuthError(l)
        THEN [stage   |-> StageAuth,
              details |-> "{renzheng-shibai}: " \o errMsg \o suffix]
        ELSE IF IsSQLError(l)
        THEN [stage   |-> StageSQL,
              details |-> "SQL{zhixing-shibai}: " \o errMsg \o suffix]
        ELSE IF dbType = "oracle" /\ IsOracleCancel(l)
        THEN [stage   |-> StageTimeout,
              details |-> "{caozuo-chaoshi-bei-quxiao} (ORA-01013): " \o errMsg
                          \o OracleCancelHint \o suffix]
        ELSE IF dbType = "oracle" /\ IsOracleCode(l)
        THEN [stage   |-> StageOracle,
              details |-> "Oracle{xieyi-cuowu}: " \o errMsg
                          \o OraCodeSuffix(l) \o suffix]
        ELSE IF dbType \in {"mysql", "tidb"} /\ IsMySQLCode(l)
        THEN [stage   |-> StageMySQL,
              details |-> "MySQL{xieyi-cuowu}: " \o errMsg \o suffix]
        ELSE IF IsTimeoutError(l)
        THEN [stage   |-> StageTimeout,
              details |-> "{caozuo-chaoshi}: " \o errMsg \o suffix]
        ELSE [stage   |-> StageUnknown,
              details |-> "{weizhi-cuowu}: " \o errMsg \o suffix]

\* an analyzeError that tests the authentication indicators first
analyzeErrorAuthFirst(err, dbType) ==
    IF err.isNil THEN [stage |-> StageNone, details |-> ""]
    ELSE LET errMsg == err.msg
             l      == ToLower(errMsg)
             suffix == UnderlyingSuffix(errMsg, IF err.wraps THEN err.inner ELSE "")
         IN  IF IsAuthError(l)
             THEN [stage   |-> StageAuth,
                   details |-> "{renzheng-shibai}: " \o errMsg \o suffix]
             ELSE RuleChain(errMsg, l, suffix, dbType)

analyzeError(err, dbType) ==
    IF err.isNil THEN [stage |-> StageNone, details |-> ""]
    ELSE LET errMsg == err.msg
             suffix == UnderlyingSuffix(errMsg, IF err.wraps THEN err.inner ELSE "")
         IN  CHOOSE r \in { RuleChain(errMsg, errMsgLower, suffix, dbType) :
                               errMsgLower \in {ToLower(errMsg)} } : TRUE

(***************************************************************************)
(* fmt verbs used by the error wrapping of probeOnce                       *)
(***************************************************************************)
DigitText(d) ==
    CASE d = 0 -> "0" [] d = 1 -> "1" [] d = 2 -> "2" [] d = 3 -> "3"
      [] d = 4 -> "4" [] d = 5 -> "5" [] d = 6 -> "6" [] d = 7 -> "7"
      [] d = 8 -> "8" [] OTHER -> "9"

\* %d of a non-negative int
RECURSIVE IntText(_)
IntText(n) ==
    IF n < 10 THEN DigitText(n) ELSE IntText(n \div 10) \o DigitText(n % 10)

\* %v of a time.Duration below one second; d is in model units of 50 ms
DurationText(d) == IntText(50 * d) \o "ms"

(***************************************************************************)
(* Configuration (config.Config): the validated input of NewProber         *)
(***************************************************************************)
AllDatabases ==
    << [Name |-> "db1", Type |-> "mysql",  Host |-> "10.0.0.1", Port |-> 3306,
        ServiceName |-> ""],
       [Name |-> "ora1", Type |-> "oracle", Host |-> "10.0.0.2", Port |-> 1521,
        ServiceName |-> ""] >>

\* the indices of the databases a configuration can list
Targets == 1..Len(AllDatabases)

\* p.config.ProbeInterval and p.config.ProbeTimeout, in units of 50 ms
ProbeInterval == 2
ProbeTimeout == 1

\* the model stops the clock here: MaxClock with one configured database,
\* MaxClockMulti with several
MaxClock == 6
MaxClockMulti == 3

\* time.Time{}: the zero value of lastPingTime; the clock starts after it
ZeroTime == 0

\* pingDuration > 0.05 (seconds) is pingDuration > 1 unit
ReconnectPingThreshold == 1

(***************************************************************************)
(* What the drivers can return                                             *)
(***************************************************************************)
\* the environment: the endpoint of db1 answers or fails at will, the endpoint
\* of ora1 is down and refuses every connection
Reachable == {1}

ErrCanceled == NewError("context canceled")
ErrDeadline == NewError("context deadline exceeded")
ErrDBClosed == NewError("sql: database is closed")
ErrRefused ==
    WrapError("dial tcp 10.0.0.1:3306: connect: connection refused",
              "connect: connection refused")
ErrNoTable == NewError("Error 1146 (42S02): Table 'probe.t' doesn't exist")

(***************************************************************************)
(* State                                                                   *)
(***************************************************************************)
VARIABLES
    clock,          \* time.Now()
    mainPc,         \* where main / NewProber / Start / Stop stands
    mainIdx,        \* index of the range loop main is in
    Databases,      \* cfg.Databases
    sharedLoopVar,  \* whether "for _, dbCfg := range" has one variable for all iterations
    dbCfgVar,       \* index of the database the loop variable dbCfg holds
    pTargets,       \* p.targets
    ctxDone,        \* p.ctx is cancelled
    wg,             \* p.wg counter
    dbState,        \* target.DB: "none", "open", "closed"
    lastPingTime,   \* target.lastPingTime
    lastUpStatus,   \* target.lastUpStatus: "nil", "up", "down"
    LastError,      \* target.LastError
    metrics,        \* the metric series of each target's label set
    pc,             \* position of the goroutine Start's i-th iteration spawned
    loopTarget,     \* the target argument of that goroutine's probeLoop
    ticker,         \* its time.Ticker
    loc,            \* probeOnce's local variables (queried: it called QueryRowContext)
    logs,           \* log calls made by that goroutine's cycles, by level
    pre,            \* history: the target's metrics when the current cycle began
    infoIdx,        \* GetTargetsInfo: index of its range loop, 0 when not called
    infos,          \*   the slice it builds and returns
    cIn,            \* classifier harness: the (err, dbType) analyzeError was called with
    cOut,           \*   what it returned
    cCalls,         \*   how many times it was called on cIn
    vCfg,           \* validation harness: the Config that Load has unmarshalled
    vOut            \*   what Validate returned for it

\* target.mu of every target, the position of every probe loop and of every
\* /targets request at the granularity of the lock operations
VARIABLES mu, lockPc, hPc, hIdx

\* the Oracle connect timeout newTarget has put into the DSN, << >> before
VARIABLE connectTimeout

\* harness of the IP resolution of newTarget: dbCfg.Host, what net.LookupIP
\* returns for it, and the ip newTarget ends with, << >> before
VARIABLES rHost, rLookup, rIP

\* harness of the error wrapping of probeOnce: the raw error of a failed
\* cycle with its phase and target type, and the stages probeOnce derives
VARIABLES wIn, wOut

proberVars ==
    << clock, mainPc, mainIdx, Databases, sharedLoopVar, dbCfgVar, pTargets,
       ctxDone, wg, dbState, lastPingTime, lastUpStatus, LastError, metrics, pc,
       loopTarget, ticker, loc, logs, pre, infoIdx, infos >>

infoVars == << infoIdx, infos >>

classifyVars == << cIn, cOut, cCalls >>

validateVars == << vCfg, vOut >>

lockVars == << mu, lockPc, hPc, hIdx >>

dsnVars == << connectTimeout >>

resolveVars == << rHost, rLookup, rIP >>

wrapVars == << wIn, wOut >>

vars == << proberVars, classifyVars, validateVars, lockVars, dsnVars, resolveVars, wrapVars >>

(***************************************************************************)
(* config.Validate                                                         *)
(***************************************************************************)
ValidTypes == {"mysql", "tidb", "oracle"}

\* the checks of one iteration of Validate's loop, in order; i is the
\* 0-based index and nameMap the names of the entries before it
ValidateEntry(db, i, nameMap) ==
    LET at == "databases[" \o IntText(i) \o "]"
        noDSN == "{.dang} dsn {wei-tigong-shi.}"
    IN  IF db.Name = ""
        THEN NewError(at \o ".name {buneng-weikong}")
        ELSE IF db.Name \in nameMap
        THEN NewError("{shujuku-mingcheng-chongfu}: " \o db.Name)
        ELSE IF db.Project = ""
        THEN NewError(at \o ".project {buneng-weikong}")
        ELSE IF db.Env = ""
        THEN NewError(at \o ".env {buneng-weikong}")
        ELSE IF db.Type \notin ValidTypes
        THEN NewError(at \o ".type {bixu-shi} mysql{.}tidb {huo} oracle{.dangqian-zhi}: "
                         \o db.Type)
        ELSE IF db.DSN # ""
        THEN NilError
        ELSE IF db.Host = ""
        THEN NewError(at \o ".host {buneng-weikong}" \o noDSN)
        ELSE IF db.Port = 0
        THEN NewError(at \o ".port {buneng-weikong}" \o noDSN)
        ELSE IF db.User = ""
        THEN NewError(at \o ".user {buneng-weikong}" \o noDSN)
        ELSE IF db.Password = ""
        THEN NewError(at \o ".password {buneng-weikong}" \o noDSN)
        ELSE NilError

\* Validate's range loop from the k-th entry (1-based) on
RECURSIVE ValidateFrom(_, _, _)
ValidateFrom(dbs, k, nameMap) ==
    IF k > Len(dbs) THEN NilError
    ELSE LET err == ValidateEntry(dbs[k], k - 1, nameMap)
         IN  IF ~err.isNil THEN err
             ELSE ValidateFrom(dbs, k + 1, nameMap \cup {dbs[k].Name})

\* a Validate that checks no entry after the first
ValidateFirstOnly(cfg) ==
    IF Len(cfg.Databases) = 0
    THEN NewError("{peizhi-xiang} databases {buneng-weikong}")
    ELSE ValidateEntry(cfg.Databases[1], 0, {})

Validate(cfg) ==
    IF Len(cfg.Databases) = 0
    THEN NewError("{peizhi-xiang} databases {buneng-weikong}")
    ELSE ValidateFrom(cfg.Databases, 1, {})

(***************************************************************************)
(* Metrics (package metrics)                                               *)
(***************************************************************************)
\* a label set for which With(labels) was never called has no series
NoSeries == -1

NoMetrics ==
    [up |-> NoSeries, dur |-> NoSeries, ts |-> NoSeries, info |-> NoSeries,
     pingUp |-> NoSeries, pingDur |-> NoSeries,
     queryUp |-> NoSeries, queryDur |-> NoSeries,
     reconnects |-> NoSeries, reconnectDur |-> NoSeries,
     failures |-> NoSeries, pingFailures |-> NoSeries, queryFailures |-> NoSeries]

boolToFloat64(b) == IF b THEN 1 ELSE 0

\* CounterVec.With(labels).Add(n): With creates the series at 0
CounterAdd(v, n) == (IF v = NoSeries THEN 0 ELSE v) + n

UpdateProbeResult(m, up, durationSeconds, now) ==
    [m EXCEPT !.up = boolToFloat64(up), !.dur = durationSeconds, !.ts = now]

\* an UpdatePingResult that leaves the ping-status gauge alone
UpdatePingResultDurationOnly(m, success, durationSeconds) ==
    [m EXCEPT !.pingDur = durationSeconds]

UpdatePingResult(m, success, durationSeconds) ==
    [m EXCEPT !.pingUp = boolToFloat64(success), !.pingDur = durationSeconds]

\* UpdateQueryResult that leaves the duration gauge alone
UpdateQueryResultNoDuration(m, success, durationSeconds) ==
    [m EXCEPT !.queryUp = boolToFloat64(success)]

UpdateQueryResult(m, success, durationSeconds) ==
    [m EXCEPT !.queryUp = boolToFloat64(success), !.queryDur = durationSeconds]

\* a RecordFailure that does not count
RecordFailureSkipped(m) == m

RecordReconnect(m, durationSeconds) ==
    [m EXCEPT !.reconnects = CounterAdd(@, 1), !.reconnectDur = durationSeconds]

RecordFailure(m) == [m EXCEPT !.failures = CounterAdd(@, 1)]

RecordPingFailure(m) == [m EXCEPT !.pingFailures = CounterAdd(@, 1)]

\* a RecordQueryFailure that counts a failure twice
RecordQueryFailureTwice(m) == [m EXCEPT !.queryFailures = CounterAdd(@, 2)]

RecordQueryFailure(m) == [m EXCEPT !.queryFailures = CounterAdd(@, 1)]

\* SetTargetInfo that does not initialise the reconnect counter
SetTargetInfoNoReconnects(m) ==
    [m EXCEPT !.info = 1,
              !.failures = CounterAdd(@, 0),
              !.pingFailures = CounterAdd(@, 0),
              !.queryFailures = CounterAdd(@, 0)]

SetTargetInfo(m) ==
    [m EXCEPT !.info = 1,
              !.failures = CounterAdd(@, 0),
              !.pingFailures = CounterAdd(@, 0),
              !.queryFailures = CounterAdd(@, 0),
              !.reconnects = CounterAdd(@, 0)]

(***************************************************************************)
(* Targets (newTarget)                                                     *)
(***************************************************************************)
\* target.Config: newTarget stores the address of the range variable dbCfg
ConfigOf(t) == IF sharedLoopVar THEN Databases[dbCfgVar] ELSE Databases[t]

\* target.IP: both configured hosts are literal addresses, used as they are
IPOf(t) == AllDatabases[t].Host

\* driver.DefaultQuery()
DefaultQuery(dbType) == IF dbType = "oracle" THEN "SELECT 1 FROM dual" ELSE "SELECT 1"

\* target.query: no custom query is configured
QueryOf(t) == DefaultQuery(AllDatabases[t].Type)

ServiceNameOf(cfg) == IF cfg.ServiceName = "" THEN "ORCL" ELSE cfg.ServiceName

\* the text probeOnce wraps a ping error into
PingErrText(failureStage, errorDetails, cfg, ip) ==
    "[" \o failureStage \o "{jieduan-shibai}] " \o errorDetails
        \o " (host=" \o cfg.Host \o ", port=" \o IntText(cfg.Port)
        \o ", ip=" \o ip \o ", timeout=" \o DurationText(ProbeTimeout)
        \o (IF cfg.Type = "oracle"
            THEN ", service_name=" \o ServiceNameOf(cfg) ELSE "")
        \o ")"

\* the text probeOnce wraps a query error into
QueryErrText(failureStage, errorDetails, query, cfg, ip) ==
    "[" \o failureStage \o "{jieduan-shibai}] " \o errorDetails
        \o " (query=" \o query \o ", host=" \o cfg.Host
        \o ", port=" \o IntText(cfg.Port) \o ", ip=" \o ip
        \o ", timeout=" \o DurationText(ProbeTimeout) \o ")"

(***************************************************************************)
(* Init: the process before NewProber runs                                 *)
(***************************************************************************)
\* how many /targets requests are served at once
MaxHandlers == 2

Handlers == 1..MaxHandlers

\* the goroutines that use a target's mutex
LoopProc(g) == << "loop", g >>
HandlerProc(h) == << "handler", h >>
NoProc == << "none", 0 >>

\* sync.RWMutex: w is the goroutine that has announced or holds the write
\* lock, held says that it holds it, readers are the holders of the read lock
NoMutex == [w |-> NoProc, held |-> FALSE, readers |-> {}]

\* RLock blocks while a writer holds the lock or waits for it
CanRLock(m) == m.w = NoProc

RLock(m, p) == [m EXCEPT !.readers = @ \cup {p}]

\* a reader that returns without RUnlock
RUnlockForgotten(m, p) == m

RUnlock(m, p) == [m EXCEPT !.readers = @ \ {p}]

\* Lock first excludes other writers and new readers
CanLockBegin(m) == m.w = NoProc

LockBegin(m, p) == [m EXCEPT !.w = p]

\* a Lock that returns without excluding anybody
LockNotHeld(m, p) == m

\* and then waits until the readers that hold the lock have left
CanLock(m, p) == m.w = p /\ ~m.held /\ m.readers = {}

Lock(m, p) == [m EXCEPT !.held = TRUE]

Unlock(m, p) == [m EXCEPT !.w = NoProc, !.held = FALSE]

\* net.LookupIP has not been called
NoLookup == [err |-> FALSE, ips |-> << >>]

\* the prober specifications resolve the literal host of the first database
InitResolver ==
    /\ rHost = AllDatabases[1].Host
    /\ rLookup = NoLookup
    /\ rIP = << >>

\* the prober specifications do not use the wrapping harness
InitWrapper ==
    /\ wIn = [err |-> NilError, cfg |-> AllDatabases[1],
               ip |-> AllDatabases[1].Host, phase |-> "ping"]
    /\ wOut = << >>

\* no goroutine is inside probeOnce or GetTargetsInfo at lock granularity
InitLocks ==
    /\ mu = [t \in Targets |-> NoMutex]
    /\ lockPc = [g \in Targets |-> "none"]
    /\ hPc = [h \in Handlers |-> "idle"]
    /\ hIdx = [h \in Handlers |-> 0]

NoTicker == [running |-> FALSE, next |-> 0, pending |-> 0]

\* the level of a logger that was never initialised: L() falls back to the
\* development logger, which writes Debug records too
LoggerLevelDevelopment == "debug"

\* the level of the global logger InitLogger builds from the production
\* configuration of zap: Info
LoggerLevel == "info"

\* zap's order of the levels the prober logs at
LevelRank(level) ==
    CASE level = "debug" -> 0
      [] level = "info"  -> 1
      [] level = "warn"  -> 2

\* a log call writes a record when its level is not below the logger's
LevelEnabled(level) == LevelRank(level) >= LevelRank(LoggerLevel)

\* the records written by the log calls counted in l
Emitted(l) ==
    (IF LevelEnabled("debug") THEN l.debug ELSE 0)
  + (IF LevelEnabled("info") THEN l.info ELSE 0)
  + (IF LevelEnabled("warn") THEN l.warn ELSE 0)

NoLogs == [debug |-> 0, info |-> 0, warn |-> 0]

LocInit ==
    [start |-> 0, lastPingTime |-> ZeroTime, doneAtIssue |-> FALSE,
     pingOk |-> FALSE, pingDuration |-> 0, now |-> 0,
     queried |-> FALSE, queryDuration |-> 0,
     err |-> NilError, up |-> FALSE, statusChanged |-> FALSE]

\* history: the counters and query gauges of a target when a cycle begins
NoPre ==
    [failures |-> 0, pingFailures |-> 0, queryFailures |-> 0, reconnects |-> 0,
     reconnectDur |-> 0, queryUp |-> 0, queryDur |-> 0]

PreOf(m) ==
    [failures |-> m.failures, pingFailures |-> m.pingFailures,
     queryFailures |-> m.queryFailures, reconnects |-> m.reconnects,
     reconnectDur |-> m.reconnectDur, queryUp |-> m.queryUp,
     queryDur |-> m.queryDur]

\* the prober specifications do not call Validate
InitValidator ==
    /\ vCfg = [ProbeInterval |-> ProbeInterval, ProbeTimeout |-> ProbeTimeout]
    /\ vOut = << >>

InitClassifier ==
    /\ cIn = [err |-> NilError, dbType |-> "mysql"]
    /\ cOut = << >>
    /\ cCalls = 0

InitProber(n) ==
    /\ clock = 1
    /\ mainPc = "construct"
    /\ mainIdx = 1
    /\ Databases = SubSeq(AllDatabases, 1, n)
    /\ sharedLoopVar \in (IF n = 1 THEN {FALSE} ELSE BOOLEAN)
    /\ dbCfgVar = 1
    /\ pTargets = << >>
    /\ ctxDone = FALSE
    /\ wg = 0
    /\ dbState = [t \in Targets |-> "none"]
    /\ lastPingTime = [t \in Targets |-> ZeroTime]
    /\ lastUpStatus = [t \in Targets |-> "nil"]
    /\ LastError = [t \in Targets |-> NilError]
    /\ metrics = [t \in Targets |-> NoMetrics]
    /\ pc = [g \in Targets |-> "none"]
    /\ loopTarget = [g \in Targets |-> g]
    /\ ticker = [g \in Targets |-> NoTicker]
    /\ loc = [g \in Targets |-> LocInit]
    /\ logs = [g \in Targets |-> NoLogs]
    /\ pre = [g \in Targets |-> NoPre]
    /\ infoIdx = 0
    /\ infos = << >>
    /\ InitLocks
    /\ connectTimeout = << >>

\* the configuration lists both databases
Init ==
    /\ InitProber(Len(AllDatabases))
    /\ InitClassifier /\ InitValidator /\ InitResolver /\ InitWrapper

\* the configuration lists one database
InitOne ==
    /\ InitProber(1)
    /\ InitClassifier /\ InitValidator /\ InitResolver /\ InitWrapper

(***************************************************************************)
(* NewProber, Start, Stop as main runs them                                *)
(***************************************************************************)
\* one iteration of NewProber's range loop: newTarget and the append
NewTarget ==
    /\ mainPc = "construct"
    /\ LET i == mainIdx IN
        /\ dbCfgVar' = i
        /\ dbState' = [dbState EXCEPT ![i] = "open"]
        /\ metrics' = [metrics EXCEPT ![i] = SetTargetInfo(@)]
        /\ pTargets' = Append(pTargets, i)
        /\ IF i < Len(Databases)
           THEN mainIdx' = i + 1 /\ mainPc' = mainPc
           ELSE mainIdx' = 1 /\ mainPc' = "start"
    /\ UNCHANGED << Databases, clock, sharedLoopVar, ctxDone, wg, lastPingTime, lastUpStatus,
                    LastError, pc, loopTarget, ticker, loc, logs, pre, classifyVars, infoVars, validateVars, lockVars, dsnVars, resolveVars, wrapVars >>

\* a main that logs the error of NewProber and goes on to Start
MainAfterErrorIgnored == "start"

\* main after NewProber has returned an error: Fatalw ends the process
MainAfterError == "fatal"

\* an iteration of NewProber's range loop whose newTarget returns an error
\* (db.GetDriver or sql.Open fails): cancel(), return nil and the error
NewTargetFails ==
    /\ mainPc = "construct"
    /\ ctxDone' = TRUE
    /\ mainPc' = MainAfterError
    /\ UNCHANGED << Databases, clock, mainIdx, sharedLoopVar, dbCfgVar, pTargets, wg,
                    dbState, lastPingTime, lastUpStatus, LastError, metrics, pc,
                    loopTarget, ticker, loc, logs, pre, classifyVars, infoVars,
                    validateVars, lockVars, dsnVars, resolveVars, wrapVars >>

\* Start handing every goroutine the first target
StartTargetFirst(i) == pTargets[1]

\* the target the i-th iteration of Start hands to probeLoop
StartTarget(i) == pTargets[i]

\* one iteration of Start's range loop: wg.Add(1); go p.probeLoop(target)
StartSpawn ==
    /\ mainPc = "start"
    /\ LET i == mainIdx IN
        /\ wg' = wg + 1
        /\ pc' = [pc EXCEPT ![i] = "spawned"]
        /\ loopTarget' = [loopTarget EXCEPT ![i] = StartTarget(i)]
        /\ IF i < Len(pTargets)
           THEN mainIdx' = i + 1 /\ mainPc' = mainPc
           ELSE mainIdx' = 1 /\ mainPc' = "serve"
    /\ UNCHANGED << Databases, clock, sharedLoopVar, dbCfgVar, pTargets, ctxDone, dbState,
                    lastPingTime, lastUpStatus, LastError, metrics, ticker, loc,
                    logs, pre, classifyVars, infoVars, validateVars, lockVars, dsnVars, resolveVars, wrapVars >>

\* main receives the signal and returns; the deferred Stop runs p.cancel()
StopCancel ==
    /\ mainPc = "serve"
    /\ ctxDone' = TRUE
    /\ mainPc' = "wait"
    /\ UNCHANGED << clock, mainIdx, Databases, sharedLoopVar, dbCfgVar, pTargets, wg, dbState,
                    lastPingTime, lastUpStatus, LastError, metrics, pc, loopTarget,
                    ticker, loc, logs, pre, classifyVars, infoVars, validateVars, lockVars, dsnVars, resolveVars, wrapVars >>

\* Stop without p.wg.Wait()
WaitReturnsAtOnce == TRUE

\* when p.wg.Wait() returns
WaitReturns == wg = 0

StopWait ==
    /\ mainPc = "wait"
    /\ WaitReturns
    /\ mainPc' = "close"
    /\ mainIdx' = 1
    /\ UNCHANGED << Databases, clock, sharedLoopVar, dbCfgVar, pTargets, ctxDone, wg, dbState,
                    lastPingTime, lastUpStatus, LastError, metrics, pc, loopTarget,
                    ticker, loc, logs, pre, classifyVars, infoVars, validateVars, lockVars, dsnVars, resolveVars, wrapVars >>

\* one iteration of Stop's range loop: target.DB.Close()
StopClose ==
    /\ mainPc = "close"
    /\ LET i == mainIdx IN
        /\ dbState' = [dbState EXCEPT ![pTargets[i]] = "closed"]
        /\ IF i < Len(pTargets)
           THEN mainIdx' = i + 1 /\ mainPc' = mainPc
           ELSE mainIdx' = 1 /\ mainPc' = "stopped"
    /\ UNCHANGED << Databases, clock, sharedLoopVar, dbCfgVar, pTargets, ctxDone, wg,
                    lastPingTime, lastUpStatus, LastError, metrics, pc, loopTarget,
                    ticker, loc, logs, pre, classifyVars, infoVars, validateVars, lockVars, dsnVars, resolveVars, wrapVars >>

(***************************************************************************)
(* probeLoop and probeOnce, for the goroutine g                            *)
(***************************************************************************)
\* a cycle context that is not derived from the process-wide context
CycleCtxDoneBackground(g) == clock >= loc[g].start + ProbeTimeout

\* ctx of the running cycle: context.WithTimeout(p.ctx, p.config.ProbeTimeout)
CycleCtxDone(g) == ctxDone \/ clock >= loc[g].start + ProbeTimeout

\* probeOnce up to the call of PingContext: start, the cycle context, the
\* read of lastPingTime under RLock, pingStart
BeginCycle(g) ==
    LET t == loopTarget[g] IN
    /\ loc' = [loc EXCEPT ![g] = [LocInit EXCEPT !.start = clock,
                                                 !.lastPingTime = lastPingTime[t],
                                                 !.doneAtIssue = ctxDone]]
    /\ pre' = [pre EXCEPT ![g] = PreOf(metrics[t])]
    /\ pc' = [pc EXCEPT ![g] = "ping"]

\* probeLoop: NewTicker, then the immediate first probeOnce
LoopFirst(g) ==
    /\ pc[g] = "spawned"
    /\ ticker' = [ticker EXCEPT ![g] = [running |-> TRUE,
                                        next |-> clock + ProbeInterval,
                                        pending |-> 0]]
    /\ BeginCycle(g)
    /\ UNCHANGED << clock, mainPc, mainIdx, Databases, sharedLoopVar, dbCfgVar, pTargets,
                    ctxDone, wg, dbState, lastPingTime, lastUpStatus, LastError,
                    metrics, loopTarget, logs, classifyVars, infoVars, validateVars, lockVars, dsnVars, resolveVars, wrapVars >>

\* a receive that leaves the tick in the channel
TickReceiveKept(pending) == pending

\* <-ticker.C takes one tick out of the channel
TickReceive(pending) == pending - 1

\* probeLoop: the select takes case <-ticker.C
LoopTick(g) ==
    /\ pc[g] = "select"
    /\ ticker[g].pending = 1
    /\ ticker' = [ticker EXCEPT ![g].pending = TickReceive(@)]
    /\ BeginCycle(g)
    /\ UNCHANGED << clock, mainPc, mainIdx, Databases, sharedLoopVar, dbCfgVar, pTargets,
                    ctxDone, wg, dbState, lastPingTime, lastUpStatus, LastError,
                    metrics, loopTarget, logs, classifyVars, infoVars, validateVars, lockVars, dsnVars, resolveVars, wrapVars >>

\* a probeLoop that returns without p.wg.Done()
WgDoneForgotten(n) == n

\* defer p.wg.Done()
WgDone(n) == n - 1

\* probeLoop: the select takes case <-p.ctx.Done(); the deferred
\* ticker.Stop() and p.wg.Done() run
LoopExit(g) ==
    /\ pc[g] = "select"
    /\ ctxDone
    /\ pc' = [pc EXCEPT ![g] = "exited"]
    /\ ticker' = [ticker EXCEPT ![g].running = FALSE]
    /\ wg' = WgDone(wg)
    /\ UNCHANGED << clock, mainPc, mainIdx, Databases, sharedLoopVar, dbCfgVar, pTargets,
                    ctxDone, dbState, lastPingTime, lastUpStatus, LastError,
                    metrics, loopTarget, loc, logs, pre, classifyVars, infoVars, validateVars, lockVars, dsnVars, resolveVars, wrapVars >>

\* the errors PingContext can return to the cycle of g
PingFailures(g) ==
    IF dbState[loopTarget[g]] = "closed" THEN {ErrDBClosed}
    ELSE IF loc[g].doneAtIssue THEN {ErrCanceled}
    ELSE {ErrRefused}
           \cup (IF ctxDone THEN {ErrCanceled} ELSE {})
           \cup (IF clock >= loc[g].start + ProbeTimeout THEN {ErrDeadline} ELSE {})

\* a ping-failure branch that also reports the query as failed
PingFailureMetricsWithQuery(m, pingDuration) ==
    UpdateQueryResult(
        RecordFailure(RecordPingFailure(UpdatePingResult(m, FALSE, pingDuration))),
        FALSE, 0)

\* a ping-failure branch that forgets the overall-failure counter
PingFailureMetricsNoTotal(m, pingDuration) ==
    RecordPingFailure(UpdatePingResult(m, FALSE, pingDuration))

\* the metric calls of the ping-failure branch
PingFailureMetrics(m, pingDuration) ==
    RecordFailure(RecordPingFailure(UpdatePingResult(m, FALSE, pingDuration)))

\* a query-failure branch that forgets the overall-failure counter
QueryFailureMetricsNoTotal(m, queryDuration) ==
    UpdateQueryResult(RecordQueryFailure(m), FALSE, queryDuration)

\* the metric calls of the query-failure branch, up to UpdateQueryResult
QueryFailureMetrics(m, queryDuration) ==
    UpdateQueryResult(RecordFailure(RecordQueryFailure(m)), FALSE, queryDuration)

\* PingContext returns an error: the ping-failure branch
PingFail(g) ==
    /\ pc[g] = "ping"
    /\ \E originalErr \in PingFailures(g) :
        LET t            == loopTarget[g]
            pingDuration == clock - loc[g].start
            a            == analyzeError(originalErr, ConfigOf(t).Type)
            errMsg       == PingErrText(a.stage, a.details, ConfigOf(t), IPOf(t))
        IN  /\ metrics' = [metrics EXCEPT ![t] = PingFailureMetrics(@, pingDuration)]
            /\ loc' = [loc EXCEPT ![g].pingOk = FALSE,
                                  ![g].pingDuration = pingDuration,
                                  ![g].err = NewError(errMsg),
                                  ![g].up = FALSE]
            /\ logs' = [logs EXCEPT ![g].debug = @ + 1]
    /\ pc' = [pc EXCEPT ![g] = "finish"]
    /\ UNCHANGED << clock, mainPc, mainIdx, Databases, sharedLoopVar, dbCfgVar, pTargets,
                    ctxDone, wg, dbState, lastPingTime, lastUpStatus, LastError,
                    loopTarget, ticker, pre, classifyVars, infoVars, validateVars, lockVars, dsnVars, resolveVars, wrapVars >>

\* PingContext returns nil: pingDuration and the ping gauges
PingOk(g) ==
    /\ pc[g] = "ping"
    /\ dbState[loopTarget[g]] = "open"
    /\ loopTarget[g] \in Reachable
    /\ ~loc[g].doneAtIssue
    /\ LET t            == loopTarget[g]
           pingDuration == clock - loc[g].start
       IN  /\ metrics' = [metrics EXCEPT ![t] = UpdatePingResult(@, TRUE, pingDuration)]
           /\ loc' = [loc EXCEPT ![g].pingOk = TRUE,
                                 ![g].pingDuration = pingDuration]
    /\ pc' = [pc EXCEPT ![g] = "pinged"]
    /\ UNCHANGED << clock, mainPc, mainIdx, Databases, sharedLoopVar, dbCfgVar, pTargets,
                    ctxDone, wg, dbState, lastPingTime, lastUpStatus, LastError,
                    loopTarget, ticker, logs, pre, classifyVars, infoVars, validateVars, lockVars, dsnVars, resolveVars, wrapVars >>

\* a heuristic that ignores how long the ping took
IsReconnectAnyDuration(last, now, pingDuration) ==
    /\ last # ZeroTime
    /\ now - last > ProbeInterval * 2

\* a heuristic that takes a gap of more than one interval for a reconnect
IsReconnectOneInterval(last, now, pingDuration) ==
    /\ last # ZeroTime
    /\ now - last > ProbeInterval
    /\ pingDuration > ReconnectPingThreshold

\* the condition under which a successful ping records a reconnect
IsReconnect(last, now, pingDuration) ==
    /\ last # ZeroTime
    /\ now - last > ProbeInterval * 2
    /\ pingDuration > ReconnectPingThreshold

\* an update that keeps the time of the first successful ping
SetLastPingTimeOnce(last, now) == IF last = ZeroTime THEN now ELSE last

\* target.lastPingTime = now
SetLastPingTime(last, now) == now

\* after a successful ping: now, the reconnect heuristic, lastPingTime under
\* Lock, queryStart and the call of QueryRowContext
AfterPing(g) ==
    /\ pc[g] = "pinged"
    /\ LET t   == loopTarget[g]
           now == clock
       IN  /\ metrics' = [metrics EXCEPT ![t] =
                  IF IsReconnect(loc[g].lastPingTime, now, loc[g].pingDuration)
                  THEN RecordReconnect(@, loc[g].pingDuration) ELSE @]
           /\ lastPingTime' = [lastPingTime EXCEPT ![t] = SetLastPingTime(@, now)]
           /\ loc' = [loc EXCEPT ![g].now = now,
                                 ![g].doneAtIssue = CycleCtxDone(g),
                                 ![g].queried = TRUE]
    /\ pc' = [pc EXCEPT ![g] = "query"]
    /\ UNCHANGED << clock, mainPc, mainIdx, Databases, sharedLoopVar, dbCfgVar, pTargets,
                    ctxDone, wg, dbState, lastUpStatus, LastError, loopTarget,
                    ticker, logs, pre, classifyVars, infoVars, validateVars, lockVars, dsnVars, resolveVars, wrapVars >>

\* the errors QueryRowContext(...).Scan can return to the cycle of g
QueryFailures(g) ==
    IF dbState[loopTarget[g]] = "closed" THEN {ErrDBClosed}
    ELSE IF loc[g].doneAtIssue
    THEN (IF ctxDone THEN {ErrCanceled} ELSE {ErrDeadline})
    ELSE {ErrNoTable}
           \cup (IF ctxDone THEN {ErrCanceled} ELSE {})
           \cup (IF clock >= loc[g].start + ProbeTimeout THEN {ErrDeadline} ELSE {})

\* the stage a query failure is reported under
QueryFailureStage(stage) ==
    IF stage = StageUnknown \/ stage = StageNone THEN StageSQL ELSE stage

\* the query returns an error: the query-failure branch, then UpdateQueryResult
QueryFail(g) ==
    /\ pc[g] = "query"
    /\ \E originalErr \in QueryFailures(g) :
        LET t             == loopTarget[g]
            queryDuration == clock - loc[g].now
            a             == analyzeError(originalErr, ConfigOf(t).Type)
            errMsg        == QueryErrText(QueryFailureStage(a.stage), a.details,
                                          QueryOf(t), ConfigOf(t), IPOf(t))
        IN  /\ metrics' = [metrics EXCEPT ![t] = QueryFailureMetrics(@, queryDuration)]
            /\ loc' = [loc EXCEPT ![g].queryDuration = queryDuration,
                                  ![g].err = NewError(errMsg),
                                  ![g].up = FALSE]
            /\ logs' = [logs EXCEPT ![g].debug = @ + 1]
    /\ pc' = [pc EXCEPT ![g] = "finish"]
    /\ UNCHANGED << clock, mainPc, mainIdx, Databases, sharedLoopVar, dbCfgVar, pTargets,
                    ctxDone, wg, dbState, lastPingTime, lastUpStatus, LastError,
                    loopTarget, ticker, pre, classifyVars, infoVars, validateVars, lockVars, dsnVars, resolveVars, wrapVars >>

\* the query returns one scalar: UpdateQueryResult(true)
QueryOk(g) ==
    /\ pc[g] = "query"
    /\ dbState[loopTarget[g]] = "open"
    /\ ~loc[g].doneAtIssue
    /\ LET t             == loopTarget[g]
           queryDuration == clock - loc[g].now
       IN  /\ metrics' = [metrics EXCEPT ![t] =
                             UpdateQueryResult(@, TRUE, queryDuration)]
           /\ loc' = [loc EXCEPT ![g].queryDuration = queryDuration,
                                 ![g].err = NilError,
                                 ![g].up = TRUE]
    /\ pc' = [pc EXCEPT ![g] = "finish"]
    /\ UNCHANGED << clock, mainPc, mainIdx, Databases, sharedLoopVar, dbCfgVar, pTargets,
                    ctxDone, wg, dbState, lastPingTime, lastUpStatus, LastError,
                    loopTarget, ticker, logs, pre, classifyVars, infoVars, validateVars, lockVars, dsnVars, resolveVars, wrapVars >>

\* a statusChanged that does not count the first observation
StatusChangedAfterFirst(last, up) ==
    last # "nil" /\ last # (IF up THEN "up" ELSE "down")

\* statusChanged of the health-state update
StatusChanged(last, up) ==
    IF last = "nil" THEN TRUE ELSE last # (IF up THEN "up" ELSE "down")

\* a final log call whose level follows the status change alone
FinalLogLevelByChange(err, statusChanged) ==
    IF statusChanged THEN "warn" ELSE "info"

\* the level of the final log call of a cycle
FinalLogLevel(err, statusChanged) ==
    IF ~err.isNil
    THEN (IF statusChanged THEN "warn" ELSE "info")
    ELSE "info"

\* a probeLoop that gives up after a failed cycle
AfterCycleStopOnFailure(up) == IF up THEN "returned" ELSE "exited"

\* where probeLoop stands when probeOnce returns: probeOnce returns no
\* value, the loop goes on to its select whatever the outcome
AfterCycle(up) == "returned"

\* the rest of probeOnce: duration, the health-state update under Lock,
\* UpdateProbeResult and the final log call; probeOnce returns
Finish(g) ==
    /\ pc[g] = "finish"
    /\ LET t             == loopTarget[g]
           duration      == clock - loc[g].start
           statusChanged == StatusChanged(lastUpStatus[t], loc[g].up)
           level         == FinalLogLevel(loc[g].err, statusChanged)
       IN  /\ LastError' = [LastError EXCEPT ![t] = loc[g].err]
           /\ lastUpStatus' = [lastUpStatus EXCEPT ![t] =
                                  IF loc[g].up THEN "up" ELSE "down"]
           /\ metrics' = [metrics EXCEPT ![t] =
                             UpdateProbeResult(@, loc[g].up, duration, clock)]
           /\ logs' = [logs EXCEPT ![g][level] = @ + 1]
           /\ loc' = [loc EXCEPT ![g].statusChanged = statusChanged]
    /\ pc' = [pc EXCEPT ![g] = AfterCycle(loc[g].up)]
    /\ UNCHANGED << clock, mainPc, mainIdx, Databases, sharedLoopVar, dbCfgVar, pTargets,
                    ctxDone, wg, dbState, lastPingTime, loopTarget, ticker, pre, classifyVars, infoVars, validateVars, lockVars, dsnVars, resolveVars, wrapVars >>

\* probeOnce has returned (its locals are gone); probeLoop reaches its select
LoopSelect(g) ==
    /\ pc[g] = "returned"
    /\ pc' = [pc EXCEPT ![g] = "select"]
    /\ loc' = [loc EXCEPT ![g] = LocInit]
    /\ pre' = [pre EXCEPT ![g] = NoPre]
    /\ UNCHANGED << clock, mainPc, mainIdx, Databases, sharedLoopVar, dbCfgVar, pTargets,
                    ctxDone, wg, dbState, lastPingTime, lastUpStatus, LastError,
                    metrics, loopTarget, ticker, logs, classifyVars, infoVars, validateVars, lockVars, dsnVars, resolveVars, wrapVars >>

(***************************************************************************)
(* GetTargetsInfo, as the /targets handler calls it                        *)
(***************************************************************************)
\* a snapshot that never fills in last_error
LastErrorTextOmitted(e) == ""

\* info.LastError: set only when target.LastError is not nil
LastErrorText(e) == IF e.isNil THEN "" ELSE e.msg

\* the TargetInfo built for one target under its RLock
TargetInfo(t) ==
    [Name |-> ConfigOf(t).Name, Type |-> ConfigOf(t).Type,
     Host |-> ConfigOf(t).Host, IP |-> IPOf(t),
     LastError |-> LastErrorText(LastError[t])]

\* the handler is registered once Start has returned; it serves one request
GetTargetsInfoCall ==
    /\ mainPc = "serve"
    /\ infoIdx = 0
    /\ infoIdx' = 1
    /\ infos' = << >>
    /\ UNCHANGED << clock, mainPc, mainIdx, Databases, sharedLoopVar, dbCfgVar, pTargets,
                    ctxDone, wg, dbState, lastPingTime, lastUpStatus, LastError,
                    metrics, pc, loopTarget, ticker, loc, logs, pre, classifyVars, validateVars, lockVars, dsnVars, resolveVars, wrapVars >>

\* one iteration of its range loop: RLock, build the entry, RUnlock, append
GetTargetsInfoRead ==
    /\ infoIdx \in 1..Len(pTargets)
    /\ infos' = Append(infos, TargetInfo(pTargets[infoIdx]))
    /\ infoIdx' = infoIdx + 1
    /\ UNCHANGED << clock, mainPc, mainIdx, Databases, sharedLoopVar, dbCfgVar, pTargets,
                    ctxDone, wg, dbState, lastPingTime, lastUpStatus, LastError,
                    metrics, pc, loopTarget, ticker, loc, logs, pre, classifyVars, validateVars, lockVars, dsnVars, resolveVars, wrapVars >>

(***************************************************************************)
(* Time                                                                    *)
(***************************************************************************)
\* a ticker channel that queues every tick
TickSendQueued(pending) == pending + 1

\* ticks waiting in ticker.C after a send: the channel has capacity 1 and a
\* tick that finds it full is dropped
TickSend(pending) == 1

\* the runtime sends a tick on ticker.C
TickerFire(g) ==
    /\ ticker[g].running
    /\ clock >= ticker[g].next
    /\ ticker' = [ticker EXCEPT ![g].pending = TickSend(@),
                                ![g].next = @ + ProbeInterval]
    /\ UNCHANGED << clock, mainPc, mainIdx, Databases, sharedLoopVar, dbCfgVar, pTargets,
                    ctxDone, wg, dbState, lastPingTime, lastUpStatus, LastError,
                    metrics, pc, loopTarget, loc, logs, pre, classifyVars, infoVars, validateVars, lockVars, dsnVars, resolveVars, wrapVars >>

\* time passes, once every due tick has been sent
ClockTick ==
    /\ clock < (IF Len(Databases) = 1 THEN MaxClock ELSE MaxClockMulti)
    /\ \A g \in Targets : ticker[g].running => ticker[g].next > clock
    /\ clock' = clock + 1
    /\ UNCHANGED << mainPc, mainIdx, Databases, sharedLoopVar, dbCfgVar, pTargets, ctxDone,
                    wg, dbState, lastPingTime, lastUpStatus, LastError, metrics,
                    pc, loopTarget, ticker, loc, logs, pre, classifyVars, infoVars, validateVars, lockVars, dsnVars, resolveVars, wrapVars >>

Next ==
    \/ NewTarget
    \/ StartSpawn
    \/ StopCancel
    \/ StopWait
    \/ StopClose
    \/ \E g \in Targets : LoopFirst(g)
    \/ \E g \in Targets : LoopTick(g)
    \/ \E g \in Targets : LoopExit(g)
    \/ \E g \in Targets : PingFail(g)
    \/ \E g \in Targets : PingOk(g)
    \/ \E g \in Targets : AfterPing(g)
    \/ \E g \in Targets : QueryFail(g)
    \/ \E g \in Targets : QueryOk(g)
    \/ \E g \in Targets : Finish(g)
    \/ \E g \in Targets : LoopSelect(g)
    \/ \E g \in Targets : TickerFire(g)
    \/ ClockTick

Spec == Init /\ [][Next]_vars

\* time passes only when no tick is waiting in a ticker channel: every tick
\* is received at the instant it is sent
ClockTickPrompt ==
    /\ \A g \in Targets : ticker[g].pending = 0
    /\ ClockTick

\* the prober before shutdown, with a target whose pings all succeed and a
\* loop that receives every tick without delay
NextPrompt ==
    \/ NewTarget
    \/ StartSpawn
    \/ \E g \in Targets : LoopFirst(g)
    \/ \E g \in Targets : LoopTick(g)
    \/ \E g \in Targets : PingOk(g)
    \/ \E g \in Targets : AfterPing(g)
    \/ \E g \in Targets : QueryFail(g)
    \/ \E g \in Targets : QueryOk(g)
    \/ \E g \in Targets : Finish(g)
    \/ \E g \in Targets : LoopSelect(g)
    \/ \E g \in Targets : TickerFire(g)
    \/ ClockTickPrompt

SpecPrompt == InitOne /\ [][NextPrompt]_vars

\* the prober when newTarget can fail
NextConstruct == Next \/ NewTargetFails

SpecConstruct == Init /\ [][NextConstruct]_vars

SpecOne == InitOne /\ [][Next]_vars

\* the prober while main waits for the signal, with a /targets request
\* served concurrently with the probe loops
NextInfo ==
    \/ NewTarget
    \/ StartSpawn
    \/ \E g \in Targets : LoopFirst(g)
    \/ \E g \in Targets : LoopTick(g)
    \/ \E g \in Targets : PingFail(g)
    \/ \E g \in Targets : PingOk(g)
    \/ \E g \in Targets : AfterPing(g)
    \/ \E g \in Targets : QueryFail(g)
    \/ \E g \in Targets : QueryOk(g)
    \/ \E g \in Targets : Finish(g)
    \/ \E g \in Targets : LoopSelect(g)
    \/ \E g \in Targets : TickerFire(g)
    \/ ClockTick
    \/ GetTargetsInfoCall
    \/ GetTargetsInfoRead

SpecInfo == Init /\ [][NextInfo]_vars

\* Scheduling.  Every goroutine that can take a step is eventually run; a
\* select with several ready cases picks one at random, so the Done case is
\* not passed over forever; a ping or a query returns once the cycle context
\* is cancelled or past its deadline; Stop, once called, runs on.  Nothing
\* obliges the clock to advance, a signal to arrive or an endpoint to answer.
\* a step of the goroutine g that nothing but the scheduler holds back
LoopStep(g) ==
    \/ LoopFirst(g)
    \/ LoopTick(g)
    \/ CycleCtxDone(g) /\ (PingFail(g) \/ PingOk(g))
    \/ AfterPing(g)
    \/ CycleCtxDone(g) /\ (QueryFail(g) \/ QueryOk(g))
    \/ Finish(g)
    \/ LoopSelect(g)

LoopFairness(g) == WF_vars(LoopStep(g)) /\ SF_vars(LoopExit(g))

Fairness ==
    /\ WF_vars(StopWait \/ StopClose)
    /\ \A g \in Targets : LoopFairness(g)

SpecOneLive == InitOne /\ [][Next]_vars /\ Fairness

(***************************************************************************)
(* analyzeError on its own: the errors a driver stack can hand to it are   *)
(* chains of wrapped errors, each printing as "outer: inner"               *)
(***************************************************************************)
Fragments ==
    { "dial tcp 10.0.0.1:3306: connect: connection refused",
      "lookup db.internal: no such host",
      "connect: network is unreachable",
      "dial tcp 10.0.0.1:3306: i/o timeout",
      "read tcp 10.0.0.1:3306: i/o timeout",
      "unexpected EOF",
      "Error 1045 (28000): Access denied for user 'probe'",
      "ORA-01017: invalid username/password",
      "Error 1064 (42000): syntax error near 'FORM'",
      "ORA-00942: table or view does not exist",
      "ORA-01013: user requested cancel of current operation",
      "ORA-12541: TNS:no listener",
      "ORA-03113",
      "Error 2003 (HY000): Can't connect to MySQL server",
      "Error 2006 (HY000): server has gone away",
      "context deadline exceeded",
      "context canceled",
      "driver: bad connection" }

\* the longest chain of wrapped errors
MaxParts == 2

\* how often the harness calls analyzeError on one input
MaxCalls == 2

Families == {"mysql", "tidb", "oracle"}

RECURSIVE Chains(_)
Chains(n) ==
    IF n = 1 THEN {NewError(f) : f \in Fragments}
    ELSE LET shorter == Chains(n - 1)
         IN  shorter \cup {WrapError(f \o ": " \o e.msg, e.msg) :
                              f \in Fragments, e \in shorter}

\* also an error that wraps one with the same text
ClassifierErrors ==
    Chains(MaxParts) \cup {WrapError(f, f) : f \in Fragments}

Classify ==
    /\ cCalls = 0
    /\ \E err \in ClassifierErrors, dbType \in Families :
        /\ cIn' = [err |-> err, dbType |-> dbType]
        /\ cOut' = << analyzeError(err, dbType) >>
    /\ cCalls' = 1
    /\ UNCHANGED << proberVars, validateVars, lockVars, dsnVars, resolveVars, wrapVars >>

ClassifyAgain ==
    /\ cCalls \in 1..(MaxCalls - 1)
    /\ cOut' = Append(cOut, analyzeError(cIn.err, cIn.dbType))
    /\ cCalls' = cCalls + 1
    /\ UNCHANGED << cIn, proberVars, validateVars, lockVars, dsnVars, resolveVars, wrapVars >>

NextClassify == Classify \/ ClassifyAgain

SpecClassify == InitOne /\ [][NextClassify]_vars

(***************************************************************************)
(* Harness of config.Validate: Load unmarshals a configuration file and    *)
(* calls Validate on it                                                    *)
(***************************************************************************)
\* the longest database list of a configuration file
MaxDatabases == 2

\* probe_interval and probe_timeout range over -1..MaxDuration
MaxDuration == 2

Durations == -1..MaxDuration

\* an entry with every field present and no dsn
FullEntry(name, type) ==
    [Name |-> name, Type |-> type, Host |-> "10.0.0.1", Port |-> 3306,
     User |-> "probe", Password |-> "secret", DSN |-> "",
     Project |-> "shop", Env |-> "prod"]

\* the entries a file can list: complete ones, ones that give a dsn and any
\* subset of host, port, user and password, and ones with one field missing
\* or out of range
Entries ==
    {FullEntry(n, t) : n \in {"db1", "db2"}, t \in ValidTypes}
    \cup {[FullEntry("db1", "mysql") EXCEPT
               !.DSN = "probe:secret@tcp(10.0.0.1:3306)/",
               !.Host = h, !.Port = p, !.User = u, !.Password = w] :
             h \in {"", "10.0.0.1"}, p \in {0, 3306},
             u \in {"", "probe"}, w \in {"", "secret"}}
    \cup {[FullEntry("db1", "mysql") EXCEPT !.Name = ""],
          [FullEntry("db1", "mysql") EXCEPT !.Project = ""],
          [FullEntry("db1", "mysql") EXCEPT !.Env = ""],
          [FullEntry("db1", "mysql") EXCEPT !.Type = ""],
          [FullEntry("db1", "mysql") EXCEPT !.Type = "postgres"],
          [FullEntry("db1", "mysql") EXCEPT !.Host = ""],
          [FullEntry("db1", "mysql") EXCEPT !.Port = 0],
          [FullEntry("db1", "mysql") EXCEPT !.Port = -1],
          [FullEntry("db1", "mysql") EXCEPT !.User = ""],
          [FullEntry("db1", "mysql") EXCEPT !.Password = ""]}

DatabaseLists == UNION {[1..k -> Entries] : k \in 0..MaxDatabases}

Configs ==
    [ProbeInterval : Durations, ProbeTimeout : Durations, Databases : DatabaseLists]

\* Load: cfg is unmarshalled, then Validate(&cfg) runs
ValidateCall ==
    /\ vOut = << >>
    /\ vOut' = << Validate(vCfg) >>
    /\ UNCHANGED << vCfg, proberVars, classifyVars, lockVars, dsnVars, resolveVars, wrapVars >>

NextValidate == ValidateCall

\* Load has read some configuration file
InitValidate ==
    /\ InitProber(1)
    /\ InitClassifier
    /\ InitResolver
    /\ InitWrapper
    /\ vCfg \in Configs
    /\ vOut = << >>

SpecValidate == InitValidate /\ [][NextValidate]_vars

(***************************************************************************)
(* probeOnce and GetTargetsInfo at the granularity of target.mu: each lock  *)
(* operation and each access of the health state is a step of its own.     *)
(* Every loop runs cycle after cycle and MaxHandlers requests of /targets   *)
(* are served at once.                                                     *)
(***************************************************************************)
\* what the lock steps leave alone
LockFrame ==
    UNCHANGED << clock, mainPc, mainIdx, Databases, sharedLoopVar, dbCfgVar, pTargets,
                 ctxDone, wg, dbState, metrics, pc, loopTarget, ticker, logs, pre,
                 classifyVars, infoVars, validateVars, dsnVars, resolveVars, wrapVars >>

\* target.mu.RLock() at the head of probeOnce
ProbeRLock(g) ==
    /\ lockPc[g] = "begin"
    /\ CanRLock(mu[loopTarget[g]])
    /\ mu' = [mu EXCEPT ![loopTarget[g]] = RLock(@, LoopProc(g))]
    /\ lockPc' = [lockPc EXCEPT ![g] = "read"]
    /\ loc' = [loc EXCEPT ![g] = LocInit]
    /\ UNCHANGED << lastPingTime, lastUpStatus, LastError, hPc, hIdx >>
    /\ LockFrame

\* lastPingTime := target.lastPingTime
ProbeRead(g) ==
    /\ lockPc[g] = "read"
    /\ loc' = [loc EXCEPT ![g].lastPingTime = lastPingTime[loopTarget[g]]]
    /\ lockPc' = [lockPc EXCEPT ![g] = "runlock"]
    /\ UNCHANGED << mu, lastPingTime, lastUpStatus, LastError, hPc, hIdx >>
    /\ LockFrame

\* target.mu.RUnlock(), then the call of PingContext
ProbeRUnlock(g) ==
    /\ lockPc[g] = "runlock"
    /\ mu' = [mu EXCEPT ![loopTarget[g]] = RUnlock(@, LoopProc(g))]
    /\ lockPc' = [lockPc EXCEPT ![g] = "ping"]
    /\ UNCHANGED << loc, lastPingTime, lastUpStatus, LastError, hPc, hIdx >>
    /\ LockFrame

\* PingContext returns: on success the cycle goes on to write lastPingTime,
\* on failure to the health-state update
ProbePing(g) ==
    /\ lockPc[g] = "ping"
    /\ \E ok \in BOOLEAN :
        /\ loc' = [loc EXCEPT ![g].pingOk = ok,
                              ![g].err = IF ok THEN NilError ELSE ErrRefused]
        /\ lockPc' = [lockPc EXCEPT ![g] = IF ok THEN "lock1" ELSE "lock2"]
    /\ UNCHANGED << mu, lastPingTime, lastUpStatus, LastError, hPc, hIdx >>
    /\ LockFrame

\* target.mu.Lock(), first half: other writers and new readers are excluded
ProbeLockBegin(g) ==
    /\ lockPc[g] \in {"lock1", "lock2"}
    /\ CanLockBegin(mu[loopTarget[g]])
    /\ mu' = [mu EXCEPT ![loopTarget[g]] = LockBegin(@, LoopProc(g))]
    /\ lockPc' = [lockPc EXCEPT ![g] = IF @ = "lock1" THEN "acquire1" ELSE "acquire2"]
    /\ UNCHANGED << loc, lastPingTime, lastUpStatus, LastError, hPc, hIdx >>
    /\ LockFrame

\* target.mu.Lock(), second half: the readers have left, Lock returns
ProbeLock(g) ==
    /\ lockPc[g] \in {"acquire1", "acquire2"}
    /\ CanLock(mu[loopTarget[g]], LoopProc(g))
    /\ mu' = [mu EXCEPT ![loopTarget[g]] = Lock(@, LoopProc(g))]
    /\ lockPc' = [lockPc EXCEPT ![g] = IF @ = "acquire1" THEN "write1" ELSE "write2"]
    /\ UNCHANGED << loc, lastPingTime, lastUpStatus, LastError, hPc, hIdx >>
    /\ LockFrame

\* target.lastPingTime = now
ProbeWritePingTime(g) ==
    /\ lockPc[g] = "write1"
    /\ lastPingTime' = [lastPingTime EXCEPT ![loopTarget[g]] = SetLastPingTime(@, clock)]
    /\ lockPc' = [lockPc EXCEPT ![g] = "unlock1"]
    /\ UNCHANGED << mu, loc, lastUpStatus, LastError, hPc, hIdx >>
    /\ LockFrame

\* the health-state update, first half: statusChanged from lastUpStatus,
\* target.LastError = err
ProbeWriteError(g) ==
    /\ lockPc[g] = "write2"
    /\ LET t == loopTarget[g] IN
        /\ loc' = [loc EXCEPT ![g].statusChanged =
                                  StatusChanged(lastUpStatus[t], loc[g].up)]
        /\ LastError' = [LastError EXCEPT ![t] = loc[g].err]
    /\ lockPc' = [lockPc EXCEPT ![g] = "write3"]
    /\ UNCHANGED << mu, lastPingTime, lastUpStatus, hPc, hIdx >>
    /\ LockFrame

\* the health-state update, second half: *target.lastUpStatus = up
ProbeWriteStatus(g) ==
    /\ lockPc[g] = "write3"
    /\ lastUpStatus' = [lastUpStatus EXCEPT ![loopTarget[g]] =
                           IF loc[g].up THEN "up" ELSE "down"]
    /\ lockPc' = [lockPc EXCEPT ![g] = "unlock2"]
    /\ UNCHANGED << mu, loc, lastPingTime, LastError, hPc, hIdx >>
    /\ LockFrame

\* target.mu.Unlock(): after the write of lastPingTime the query is called,
\* after the health-state update probeOnce goes on to its end
ProbeUnlock(g) ==
    /\ lockPc[g] \in {"unlock1", "unlock2"}
    /\ mu' = [mu EXCEPT ![loopTarget[g]] = Unlock(@, LoopProc(g))]
    /\ lockPc' = [lockPc EXCEPT ![g] = IF @ = "unlock1" THEN "query" ELSE "select"]
    /\ UNCHANGED << loc, lastPingTime, lastUpStatus, LastError, hPc, hIdx >>
    /\ LockFrame

\* QueryRowContext(...).Scan returns
ProbeQuery(g) ==
    /\ lockPc[g] = "query"
    /\ \E ok \in BOOLEAN :
        loc' = [loc EXCEPT ![g].queried = TRUE,
                           ![g].up = ok,
                           ![g].err = IF ok THEN NilError ELSE ErrNoTable]
    /\ lockPc' = [lockPc EXCEPT ![g] = "lock2"]
    /\ UNCHANGED << mu, lastPingTime, lastUpStatus, LastError, hPc, hIdx >>
    /\ LockFrame

\* probeOnce returns and probeLoop receives the next tick
ProbeAgain(g) ==
    /\ lockPc[g] = "select"
    /\ lockPc' = [lockPc EXCEPT ![g] = "begin"]
    /\ UNCHANGED << mu, loc, lastPingTime, lastUpStatus, LastError, hPc, hIdx >>
    /\ LockFrame

\* the target of the iteration a request is in
HandlerTarget(h) == pTargets[hIdx[h]]

\* what the handler steps leave alone
HandlerFrame ==
    /\ UNCHANGED << lockPc, loc, lastPingTime, lastUpStatus, LastError >>
    /\ LockFrame

\* a request of /targets calls GetTargetsInfo
HandlerCall(h) ==
    /\ hPc[h] = "idle"
    /\ hIdx' = [hIdx EXCEPT ![h] = 1]
    /\ hPc' = [hPc EXCEPT ![h] = "rlock"]
    /\ UNCHANGED mu
    /\ HandlerFrame

\* target.mu.RLock() of one iteration
HandlerRLock(h) ==
    /\ hPc[h] = "rlock"
    /\ CanRLock(mu[HandlerTarget(h)])
    /\ mu' = [mu EXCEPT ![HandlerTarget(h)] = RLock(@, HandlerProc(h))]
    /\ hPc' = [hPc EXCEPT ![h] = "read"]
    /\ UNCHANGED hIdx
    /\ HandlerFrame

\* the iteration builds its TargetInfo, reading target.LastError
HandlerRead(h) ==
    /\ hPc[h] = "read"
    /\ hPc' = [hPc EXCEPT ![h] = "runlock"]
    /\ UNCHANGED << mu, hIdx >>
    /\ HandlerFrame

\* target.mu.RUnlock(), the append, and the next iteration or the return
HandlerRUnlock(h) ==
    /\ hPc[h] = "runlock"
    /\ mu' = [mu EXCEPT ![HandlerTarget(h)] = RUnlock(@, HandlerProc(h))]
    /\ IF hIdx[h] < Len(pTargets)
       THEN /\ hIdx' = [hIdx EXCEPT ![h] = @ + 1]
            /\ hPc' = [hPc EXCEPT ![h] = "rlock"]
       ELSE /\ hIdx' = [hIdx EXCEPT ![h] = 0]
            /\ hPc' = [hPc EXCEPT ![h] = "idle"]
    /\ HandlerFrame

NextLock ==
    \/ \E g \in Targets : ProbeRLock(g)
    \/ \E g \in Targets : ProbeRead(g)
    \/ \E g \in Targets : ProbeRUnlock(g)
    \/ \E g \in Targets : ProbePing(g)
    \/ \E g \in Targets : ProbeLockBegin(g)
    \/ \E g \in Targets : ProbeLock(g)
    \/ \E g \in Targets : ProbeWritePingTime(g)
    \/ \E g \in Targets : ProbeWriteError(g)
    \/ \E g \in Targets : ProbeWriteStatus(g)
    \/ \E g \in Targets : ProbeUnlock(g)
    \/ \E g \in Targets : ProbeQuery(g)
    \/ \E g \in Targets : ProbeAgain(g)
    \/ \E h \in Handlers : HandlerCall(h)
    \/ \E h \in Handlers : HandlerRLock(h)
    \/ \E h \in Handlers : HandlerRead(h)
    \/ \E h \in Handlers : HandlerRUnlock(h)

\* NewProber and Start have returned: both targets are constructed, every
\* loop is about to run a cycle, the handlers are registered
InitLock ==
    /\ clock = 1
    /\ mainPc = "serve"
    /\ mainIdx = 1
    /\ Databases = AllDatabases
    /\ sharedLoopVar = FALSE
    /\ dbCfgVar = Len(AllDatabases)
    /\ pTargets = [i \in 1..Len(AllDatabases) |-> i]
    /\ ctxDone = FALSE
    /\ wg = Len(AllDatabases)
    /\ dbState = [t \in Targets |-> "open"]
    /\ lastPingTime = [t \in Targets |-> ZeroTime]
    /\ lastUpStatus = [t \in Targets |-> "nil"]
    /\ LastError = [t \in Targets |-> NilError]
    /\ metrics = [t \in Targets |-> SetTargetInfo(NoMetrics)]
    /\ pc = [g \in Targets |-> "spawned"]
    /\ loopTarget = [g \in Targets |-> g]
    /\ ticker = [g \in Targets |-> NoTicker]
    /\ loc = [g \in Targets |-> LocInit]
    /\ logs = [g \in Targets |-> NoLogs]
    /\ pre = [g \in Targets |-> NoPre]
    /\ infoIdx = 0
    /\ infos = << >>
    /\ mu = [t \in Targets |-> NoMutex]
    /\ lockPc = [g \in Targets |-> "begin"]
    /\ hPc = [h \in Handlers |-> "idle"]
    /\ hIdx = [h \in Handlers |-> 0]
    /\ connectTimeout = << >>
    /\ InitResolver
    /\ InitWrapper
    /\ InitClassifier
    /\ InitValidator

SpecLock == InitLock /\ [][NextLock]_vars

(***************************************************************************)
(* Harness of the Oracle DSN of newTarget: the connect timeout it derives   *)
(* from p.config.ProbeTimeout                                              *)
(***************************************************************************)
\* model units in one second (one unit stands for 50 ms)
UnitsPerSecond == 20

\* the longest probe timeout of the harness, in model units: 6 s
MaxProbeTimeout == 120

MinConnectTimeout == 3

MaxConnectTimeout == 10

\* int(d.Seconds() * 2) of a non-negative Duration d: the conversion to int
\* drops the fraction
DoubleSecondsInt(d) == (2 * d) \div UnitsPerSecond

\* a connect timeout without the upper limit
OracleConnectTimeoutNoMax(probeTimeout) ==
    LET c == DoubleSecondsInt(probeTimeout)
    IN  IF c < MinConnectTimeout THEN MinConnectTimeout ELSE c

\* connectTimeout of newTarget, in seconds
OracleConnectTimeout(probeTimeout) ==
    LET c == DoubleSecondsInt(probeTimeout)
    IN  IF c < MinConnectTimeout THEN MinConnectTimeout
        ELSE IF c > MaxConnectTimeout THEN MaxConnectTimeout
        ELSE c

\* newTarget builds the DSN of an Oracle target without a dsn entry
NewTargetOracleDSN ==
    /\ connectTimeout = << >>
    /\ connectTimeout' = << OracleConnectTimeout(vCfg.ProbeTimeout) >>
    /\ UNCHANGED << proberVars, classifyVars, validateVars, lockVars, resolveVars, wrapVars >>

NextDSN == NewTargetOracleDSN

\* the configuration has some positive probe timeout
InitDSN ==
    /\ InitProber(1)
    /\ InitClassifier
    /\ InitResolver
    /\ InitWrapper
    /\ vCfg \in [ProbeInterval : {MaxProbeTimeout}, ProbeTimeout : 1..MaxProbeTimeout]
    /\ vOut = << >>

SpecDSN == InitDSN /\ [][NextDSN]_vars

(***************************************************************************)
(* Harness of the IP resolution of newTarget.  net.ParseIP is modelled on   *)
(* the text of the host: a dotted quad of digits is an IPv4 address, a text *)
(* of hex digits and colons is an IPv6 address; net.IP.String() prints an   *)
(* IPv6 address with lower-case hex digits (its zero compression is not     *)
(* modelled: the harness hosts are compressed already).                     *)
(***************************************************************************)
DecimalDigits == {"0", "1", "2", "3", "4", "5", "6", "7", "8", "9"}

HexDigits ==
    DecimalDigits \cup {"a", "b", "c", "d", "e", "f", "A", "B", "C", "D", "E", "F"}

\* the characters of s, and how often c occurs in it
CharsOf(s) == {SubSeq(s, i, i) : i \in 1..Len(s)}

CountOf(s, c) == Cardinality({i \in 1..Len(s) : SubSeq(s, i, i) = c})

\* the nil net.IP
NilIP == [isNil |-> TRUE, v4 |-> FALSE, text |-> ""]

\* net.ParseIP(s): nil when s is not the text of an address
ParseIP(s) ==
    IF s # "" /\ CharsOf(s) \subseteq (DecimalDigits \cup {"."}) /\ CountOf(s, ".") = 3
    THEN [isNil |-> FALSE, v4 |-> TRUE, text |-> s]
    ELSE IF CountOf(s, ":") >= 2 /\ CharsOf(s) \subseteq (HexDigits \cup {":"})
    THEN [isNil |-> FALSE, v4 |-> FALSE, text |-> ToLower(s)]
    ELSE NilIP

\* ip.String() and ip.To4() != nil
IPString(ip) == ip.text

IsTo4(ip) == ip.v4

\* the ip after the range loop over ips: the first IPv4 address, if any
FirstIPv4(host, ips) ==
    IF \E i \in 1..Len(ips) : IsTo4(ips[i])
    THEN IPString(ips[CHOOSE i \in 1..Len(ips) :
                         IsTo4(ips[i]) /\ \A j \in 1..(i - 1) : ~IsTo4(ips[j])])
    ELSE host

\* a resolution that takes the first address whatever its family
ResolveIPFirstAddress(host, lookup) ==
    IF host = "" THEN host
    ELSE IF ~ParseIP(host).isNil THEN IPString(ParseIP(host))
    ELSE IF ~lookup.err /\ Len(lookup.ips) > 0 THEN IPString(lookup.ips[1])
    ELSE host

\* the ip newTarget computes from dbCfg.Host; lookup is what net.LookupIP
\* returns for the host
ResolveIP(host, lookup) ==
    IF host = "" THEN host
    ELSE IF ~ParseIP(host).isNil THEN IPString(ParseIP(host))
    ELSE IF ~lookup.err /\ Len(lookup.ips) > 0
         THEN LET ip == FirstIPv4(host, lookup.ips)
              IN  IF ip = host /\ Len(lookup.ips) > 0
                  THEN IPString(lookup.ips[1])
                  ELSE ip
         ELSE host

\* the hosts of the harness: two literal IPv4 and IPv6 addresses, an IPv6
\* literal in upper case, a DNS name, and no host (an entry with a dsn)
Hosts == {"10.0.0.1", "2001:db8::1", "2001:DB8::1", "db.internal", ""}

\* the addresses a lookup can return
LookupAddresses == {ParseIP("10.0.0.7"), ParseIP("10.0.0.8"), ParseIP("fe80::1")}

\* the longest lookup result
MaxAddresses == 2

LookupResults ==
    {[err |-> TRUE, ips |-> << >>]}
    \cup {[err |-> FALSE, ips |-> ips] :
             ips \in UNION {[1..n -> LookupAddresses] : n \in 0..MaxAddresses}}

\* what net.LookupIP can return for a host: for the empty host, an error
LookupResultsOf(host) ==
    IF host = "" THEN {r \in LookupResults : r.err} ELSE LookupResults

\* newTarget resolves the host; it goes on to build the DSN whatever the
\* lookup returned
ResolveIPCall ==
    /\ rIP = << >>
    /\ rIP' = << ResolveIP(rHost, rLookup) >>
    /\ UNCHANGED << rHost, rLookup, proberVars, classifyVars, validateVars, lockVars,
                    dsnVars, wrapVars >>

NextResolve == ResolveIPCall

\* some host is configured and the resolver will answer somehow
InitResolve ==
    /\ InitProber(1)
    /\ InitClassifier
    /\ InitValidator
    /\ InitWrapper
    /\ rHost \in Hosts
    /\ rLookup \in LookupResultsOf(rHost)
    /\ rIP = << >>

SpecResolve == InitResolve /\ [][NextResolve]_vars

(***************************************************************************)
(* Properties                                                              *)
(***************************************************************************)
\* the goroutine is inside probeOnce
InCycle(g) == pc[g] \in {"ping", "pinged", "query", "finish"}

\* a ping or a query of the goroutine is in flight
InFlight(g) == pc[g] \in {"ping", "query"}

\* the goroutine's probeOnce has just returned
Returned(g) == pc[g] = "returned"

\* final log calls made so far by the goroutine: its completed cycles
Completed(g) == logs[g].info + logs[g].warn

\* C1: Stop closes a connection only after every probe loop has exited, and
\* no ping or query is in flight on a closed connection.
C1_CloseAfterLoopsExit ==
    /\ \A t \in Targets :
          dbState[t] = "closed"
             => ctxDone /\ \A g \in Targets : pc[g] \in {"none", "exited"}
    /\ \A g \in Targets : InFlight(g) => dbState[loopTarget[g]] = "open"

\* Stop has closed every connection after both loops ran cycles and exited
C1_Witness ==
    /\ mainPc = "stopped"
    /\ \A t \in Targets : dbState[t] = "closed"
    /\ \A g \in Targets : pc[g] = "exited" /\ Completed(g) >= 1

\* C2: at most one probe cycle per target is executing at any time.
C2_OneCyclePerTarget ==
    \A t \in Targets :
        Cardinality({g \in Targets : InCycle(g) /\ loopTarget[g] = t}) <= 1

\* a cycle still executing a whole interval after it began, its tick waiting
C2_Witness ==
    \E g \in Targets :
        /\ InCycle(g)
        /\ clock - loc[g].start >= ProbeInterval
        /\ ticker[g].pending = 1

\* C3: a cycle whose ping failed issued no query and left the query-status
\* and query-duration gauges at the values they had when the cycle began.
C3_PingFailSkipsQuery ==
    \A g \in Targets :
        /\ (pc[g] \in {"finish", "returned"} /\ ~loc[g].pingOk)
              => /\ ~loc[g].queried
                 /\ metrics[loopTarget[g]].queryUp = pre[g].queryUp
                 /\ metrics[loopTarget[g]].queryDur = pre[g].queryDur
        /\ pc[g] = "query" => loc[g].pingOk

\* a ping-failed cycle returned after an earlier cycle had set the query gauges
C3_Witness ==
    \E g \in Targets :
        /\ Returned(g) /\ ~loc[g].pingOk
        /\ pre[g].queryUp = 1
        /\ metrics[loopTarget[g]].queryDur = pre[g].queryDur

\* C4: a cycle whose ping failed added one to the ping-failure and the
\* overall-failure counters, left the query-failure counter alone and set the
\* ping-status and availability gauges to 0.
C4_PingFailCounters ==
    \A g \in Targets :
        (Returned(g) /\ ~loc[g].pingOk)
           => LET m == metrics[loopTarget[g]]
              IN  /\ m.pingFailures = pre[g].pingFailures + 1
                  /\ m.failures = pre[g].failures + 1
                  /\ m.queryFailures = pre[g].queryFailures
                  /\ m.pingUp = 0
                  /\ m.up = 0

\* a ping-failed cycle returned that was not the first failure of the target
C4_Witness ==
    \E g \in Targets :
        /\ Returned(g) /\ ~loc[g].pingOk
        /\ pre[g].failures >= 1
        /\ metrics[loopTarget[g]].failures = pre[g].failures + 1

\* C5: a cycle whose ping and query both succeeded set the availability,
\* ping-status and query-status gauges to 1 and the query-duration gauge to
\* the measured duration, incremented no failure counter and recorded a nil
\* last error.
C5_SuccessfulCycle ==
    \A g \in Targets :
        (Returned(g) /\ loc[g].pingOk /\ loc[g].up)
           => LET t == loopTarget[g]
                  m == metrics[t]
              IN  /\ m.up = 1
                  /\ m.pingUp = 1
                  /\ m.queryUp = 1
                  /\ m.queryDur = loc[g].queryDuration
                  /\ m.queryDur # NoSeries
                  /\ m.failures = pre[g].failures
                  /\ m.pingFailures = pre[g].pingFailures
                  /\ m.queryFailures = pre[g].queryFailures
                  /\ LastError[t] = NilError

\* a successful cycle returned after a failed one, with a slow query
C5_Witness ==
    \E g \in Targets :
        /\ Returned(g) /\ loc[g].pingOk /\ loc[g].up
        /\ pre[g].failures >= 1
        /\ loc[g].queryDuration >= 1
        /\ LastError[loopTarget[g]] = NilError

\* what C6 says decides a reconnect event, on the cycle's own readings
C6_Condition(g) ==
    /\ loc[g].pingOk
    /\ loc[g].lastPingTime # ZeroTime
    /\ loc[g].now - loc[g].lastPingTime > 2 * ProbeInterval
    /\ loc[g].pingDuration > ReconnectPingThreshold

\* C6: a cycle records a reconnect event (counter +1, reconnect-duration
\* gauge = ping duration) exactly when its ping succeeded, lastPingTime was
\* non-zero, the instant taken after the ping is more than 2 x interval past
\* lastPingTime and the ping took more than 50 ms; otherwise it records none.
C6_ReconnectIff ==
    \A g \in Targets :
        pc[g] \in {"query", "finish", "returned"}
           => LET m == metrics[loopTarget[g]]
              IN  IF C6_Condition(g)
                  THEN /\ m.reconnects = pre[g].reconnects + 1
                       /\ m.reconnectDur = loc[g].pingDuration
                  ELSE /\ m.reconnects = pre[g].reconnects
                       /\ m.reconnectDur = pre[g].reconnectDur

\* a cycle that recorded a reconnect event has returned
C6_Witness ==
    \E g \in Targets :
        /\ Returned(g)
        /\ C6_Condition(g)
        /\ metrics[loopTarget[g]].reconnects = pre[g].reconnects + 1

\* C7 as claimed: the first completed cycle logs at the elevated level
\* exactly once, whatever its outcome.
C7_FirstCycleElevated ==
    \A g \in Targets :
        (Returned(g) /\ Completed(g) = 1)
           => loc[g].statusChanged /\ logs[g].warn = 1

\* C7 as the code has it: the first completed cycle counts as a status
\* change; its final log call is at the elevated level exactly once when the
\* cycle's outcome is down and at the routine level when it is up.
C7_FirstCycleLevel ==
    \A g \in Targets :
        (Returned(g) /\ Completed(g) = 1)
           => /\ loc[g].statusChanged
              /\ IF loc[g].up
                 THEN logs[g].warn = 0 /\ logs[g].info = 1
                 ELSE logs[g].warn = 1 /\ logs[g].info = 0

\* the first cycle of a target returned with outcome down
C7_Witness ==
    \E g \in Targets :
        /\ Returned(g) /\ Completed(g) = 1
        /\ ~loc[g].up
        /\ logs[g].warn = 1

\* C8: a constructed target none of whose cycles has begun has its four
\* counters at 0 and its target-info gauge at 1.
C8_CountersInitialised ==
    \A t \in Targets :
        (/\ dbState[t] = "open"
         /\ \A g \in Targets : loopTarget[g] = t => pc[g] \in {"none", "spawned"})
           => /\ metrics[t].failures = 0
              /\ metrics[t].pingFailures = 0
              /\ metrics[t].queryFailures = 0
              /\ metrics[t].reconnects = 0
              /\ metrics[t].info = 1

\* a target is constructed and its loop is spawned but has not begun a cycle
C8_Witness ==
    \E t \in Targets :
        /\ dbState[t] = "open"
        /\ pc[t] = "spawned" /\ loopTarget[t] = t
        /\ metrics[t].reconnects = 0

\* the fixed taxonomy of failure stages
C9_Taxonomy ==
    {StageTCP, StageHandshake, StageAuth, StageSQL, StageTimeout, StageOracle,
     StageMySQL, StageUnknown}

C10_Has(l, indicators) == \E i \in indicators : Contains(l, i)

\* the stage of the first rule, in the claimed order, with an indicator in l
C10_FirstRuleStage(l, family) ==
    IF \/ C10_Has(l, {"connection refused", "no such host", "network is unreachable"})
       \/ (Contains(l, "dial") /\ Contains(l, "timeout"))
    THEN StageTCP
    ELSE IF C10_Has(l, {"eof", "end of file"})
    THEN StageHandshake
    ELSE IF C10_Has(l, {"access denied", "invalid credentials", "authentication failed",
                        "ora-01017", "ora-1017", "1045"})
    THEN StageAuth
    ELSE IF C10_Has(l, {"sql", "syntax error", "table", "column"})
    THEN StageSQL
    ELSE IF family = "oracle"
            /\ C10_Has(l, {"ora-01013", "ora-1013", "user requested cancel"})
    THEN StageTimeout
    ELSE IF family = "oracle" /\ Contains(l, "ora-")
    THEN StageOracle
    ELSE IF family \in {"mysql", "tidb"} /\ Contains(l, "error")
            /\ C10_Has(l, {"1045", "2003", "2006"})
    THEN StageMySQL
    ELSE IF C10_Has(l, {"context deadline exceeded", "timeout"})
    THEN StageTimeout
    ELSE StageUnknown

\* C10: analyzeError returns the stage of the first rule, in the order
\* transport, handshake, authentication, query-execution, family-specific
\* codes, generic timeout, unknown, whose indicator occurs in the lower-cased
\* error text; a text containing "connection refused" is transport for every
\* family.
C10_FirstMatchWins ==
    cCalls >= 1 =>
        LET l == ToLower(cIn.err.msg) IN
        /\ cOut[1].stage = C10_FirstRuleStage(l, cIn.dbType)
        /\ Contains(l, "connection refused") => cOut[1].stage = StageTCP

\* "connection refused" wrapped around an access-denied error, for Oracle:
\* transport wins over authentication
C10_Witness ==
    /\ cCalls >= 1
    /\ cIn.dbType = "oracle"
    /\ Contains(cIn.err.msg, "connection refused")
    /\ Contains(cIn.err.msg, "Access denied")
    /\ cOut[1].stage = StageTCP

\* the recommendation to increase probe_timeout is in the detail
C11_RecommendsTimeout(details) == Contains(details, "probe_timeout")

\* a rule that analyzeError tests before the Oracle rules has an indicator in l
C11_EarlierRule(l) ==
    IsTCPError(l) \/ IsEOFError(l) \/ IsAuthError(l) \/ IsSQLError(l)

\* C11 as claimed: for an Oracle-family target every error whose text
\* contains ORA-01013 is classified as stage timeout, with a detail that
\* recommends increasing the probe timeout.
C11_OracleCancelAlways ==
    (cCalls >= 1 /\ cIn.dbType = "oracle"
        /\ Contains(ToLower(cIn.err.msg), "ora-01013"))
       => /\ cOut[1].stage = StageTimeout
          /\ C11_RecommendsTimeout(cOut[1].details)

\* C11 as the code has it: for an Oracle-family target an error whose text
\* contains ORA-01013 and no indicator of the transport, handshake,
\* authentication or query-execution rules is classified as stage timeout,
\* with a detail that recommends increasing the probe timeout; with such an
\* indicator it gets the stage of that earlier rule and no recommendation.
C11_OracleCancelTimeout ==
    (cCalls >= 1 /\ cIn.dbType = "oracle"
        /\ Contains(ToLower(cIn.err.msg), "ora-01013"))
       => IF C11_EarlierRule(ToLower(cIn.err.msg))
          THEN /\ cOut[1].stage \in {StageTCP, StageHandshake, StageAuth, StageSQL}
               /\ ~C11_RecommendsTimeout(cOut[1].details)
          ELSE /\ cOut[1].stage = StageTimeout
               /\ C11_RecommendsTimeout(cOut[1].details)

\* the bare ORA-01013 text of an Oracle target was classified as timeout
C11_Witness ==
    /\ cCalls >= 1
    /\ cIn.dbType = "oracle"
    /\ cIn.err.msg = "ORA-01013: user requested cancel of current operation"
    /\ cOut[1].stage = StageTimeout
    /\ C11_RecommendsTimeout(cOut[1].details)

\* C12: once Stop has signalled cancellation every probe loop eventually
\* exits and Stop eventually returns, given that every ping and query returns
\* once its context is cancelled or its deadline has passed; no loop is
\* running after Stop has returned.
C12_StopTerminates ==
    /\ ctxDone ~> (mainPc = "stopped" /\ \A g \in Targets : pc[g] \in {"none", "exited"})
    /\ [](mainPc = "stopped" => \A g \in Targets : pc[g] \in {"none", "exited"})

\* Stop has returned after the cancellation aborted a cycle that was in flight
C12_Witness ==
    /\ mainPc = "stopped"
    /\ \E g \in Targets :
          /\ pc[g] = "exited"
          /\ Contains(LastError[loopTarget[g]].msg, "context canceled")

\* the goroutine waits in its select with a tick pending, its target's last
\* cycle having failed, and no shutdown signalled
C13_FailedAndTickPending(g) ==
    /\ pc[g] = "select"
    /\ ticker[g].pending = 1
    /\ lastUpStatus[loopTarget[g]] = "down"
    /\ ~ctxDone

\* C13: while shutdown has not been signalled a failed cycle neither ends nor
\* suspends the loop: no loop has exited, a failed cycle made one attempt
\* (one failure counted, no retry), the ticker keeps the configured interval
\* however many cycles failed (no backoff), and a loop whose last cycle failed
\* runs another cycle once the next tick is there.
C13_FailuresDoNotStopLoop ==
    /\ [](\A g \in Targets : pc[g] = "exited" => ctxDone)
    /\ [](\A g \in Targets :
             (Returned(g) /\ ~loc[g].up)
                => metrics[loopTarget[g]].failures = pre[g].failures + 1)
    /\ [](\A g \in Targets :
             ticker[g].running
                => /\ clock <= ticker[g].next
                   /\ ticker[g].next <= clock + ProbeInterval)
    /\ \A g \in Targets :
          C13_FailedAndTickPending(g) ~> (InCycle(g) \/ ctxDone)

\* a third cycle is running, on time, after two cycles in a row failed
C13_Witness ==
    \E g \in Targets :
        /\ ~ctxDone
        /\ InCycle(g)
        /\ pre[g].failures = 2
        /\ logs[g].info + logs[g].warn = 2
        /\ ticker[g].next = loc[g].start + ProbeInterval

\* C14: every constructed target keeps its own descriptor: the i-th entry
\* GetTargetsInfo returns has the name, family and host of the i-th
\* configured database, and a failed ping is reported with the target's own
\* host and handled as its own family (service_name for Oracle only).
C14_OwnDescriptor ==
    /\ \A i \in 1..Len(infos) :
          /\ infos[i].Name = Databases[i].Name
          /\ infos[i].Type = Databases[i].Type
          /\ infos[i].Host = Databases[i].Host
    /\ \A g \in Targets :
          (pc[g] = "finish" /\ ~loc[g].pingOk)
             => LET own == Databases[loopTarget[g]] IN
                /\ Contains(loc[g].err.msg, "(host=" \o own.Host \o ",")
                /\ Contains(loc[g].err.msg, "service_name=") <=> own.Type = "oracle"

\* the entry a step of GetTargetsInfo's loop has just appended
C15_NewEntry == infos'[Len(infos')]

\* C15: GetTargetsInfo, running concurrently with the cycles, returns one
\* entry per target in configuration order; the last_error of an entry is
\* empty exactly when, as the entry is read, the target's latest health-state
\* update recorded a successful cycle or none has completed yet, and is
\* otherwise the error text of that update; the call changes no target state.
C15_SnapshotConsistent ==
    /\ [](infoIdx = Len(pTargets) + 1
             => /\ Len(infos) = Len(Databases)
                /\ \A i \in 1..Len(infos) : infos[i].IP = IPOf(i))
    /\ [][GetTargetsInfoRead
             => LET t == pTargets[infoIdx] IN
                /\ C15_NewEntry.LastError = "" <=> lastUpStatus[t] \in {"nil", "up"}
                /\ lastUpStatus[t] = "down"
                      => /\ C15_NewEntry.LastError = LastError[t].msg
                         /\ C15_NewEntry.LastError # ""]_vars
    /\ [][(GetTargetsInfoCall \/ GetTargetsInfoRead)
             => UNCHANGED << dbState, lastPingTime, lastUpStatus, LastError,
                             metrics, pTargets >>]_vars

\* a snapshot was returned while a cycle was running: its entry for the first
\* target, read before that target had failed, is empty although the target
\* has failed since, and its entry for the second target carries an error
C15_Witness ==
    /\ infoIdx = Len(pTargets) + 1
    /\ Len(infos) = 2
    /\ infos[1].LastError = "" /\ ~LastError[1].isNil
    /\ infos[2].LastError # ""
    /\ \E g \in Targets : InCycle(g)

\* Validate returned nil: Load returns the configuration and main builds the
\* Prober with it
C16_Accepted == Len(vOut) = 1 /\ vOut[1].isNil

\* C16: startup validation rejects every configuration whose probe interval
\* or probe timeout is not positive or whose probe timeout is not smaller
\* than the probe interval, so a Prober is only built with
\* 0 < probe timeout < probe interval.
C16_DurationsValidated ==
    C16_Accepted
       => /\ 0 < vCfg.ProbeTimeout
          /\ vCfg.ProbeTimeout < vCfg.ProbeInterval

\* the condition of C17 on one entry
C17_EntryOk(db) ==
    /\ db.Name # "" /\ db.Project # "" /\ db.Env # ""
    /\ db.Type \in {"mysql", "tidb", "oracle"}
    /\ db.DSN = "" => (db.Host # "" /\ db.User # "" /\ db.Password # "" /\ db.Port # 0)

\* the condition of C17 on the list
C17_ListOk(dbs) ==
    /\ Len(dbs) > 0
    /\ \A i \in 1..Len(dbs) : C17_EntryOk(dbs[i])
    /\ \A i, j \in 1..Len(dbs) : dbs[i].Name = dbs[j].Name => i = j

C18_NoCycleAfterCancel ==
    \A g \in Targets : pc[g] = "ping" => ~loc[g].doneAtIssue

\* C19: missed ticks do not queue: at most one tick is pending per target
\* however long a cycle overruns, and the cycle a pending tick starts leaves
\* none pending, so the cycle after it waits for a fresh tick.
C19_NoTickBacklog ==
    /\ [](\A g \in Targets : ticker[g].pending \in {0, 1})
    /\ [][\A g \in Targets : LoopTick(g) => ticker'[g].pending = 0]_vars

\* a cycle has overrun two whole intervals and one tick is pending
C19_Witness ==
    \E g \in Targets :
        /\ InCycle(g)
        /\ clock - loc[g].start >= 2 * ProbeInterval
        /\ ticker[g].next > loc[g].start + 2 * ProbeInterval
        /\ ticker[g].pending = 1

\* a step of the probe loop or of a probe cycle of the goroutine g
C20_CycleStep(g) ==
    \/ LoopFirst(g) \/ LoopTick(g) \/ LoopSelect(g)
    \/ PingFail(g) \/ PingOk(g) \/ AfterPing(g)
    \/ QueryFail(g) \/ QueryOk(g) \/ Finish(g)

\* C20: a probe cycle of the i-th loop touches the i-th target only: it
\* leaves the health state, connection and metrics of every other target as
\* they were, and leaves every other loop where it stood, with its ticker and
\* its cycle's locals, so it neither stops nor delays it.
C20_CycleFrame ==
    [][\A g \in Targets :
          C20_CycleStep(g)
             => /\ \A u \in Targets \ {pTargets[g]} :
                      /\ lastPingTime'[u] = lastPingTime[u]
                      /\ lastUpStatus'[u] = lastUpStatus[u]
                      /\ LastError'[u] = LastError[u]
                      /\ dbState'[u] = dbState[u]
                      /\ metrics'[u] = metrics[u]
                /\ \A h \in Targets \ {g} :
                      /\ pc'[h] = pc[h]
                      /\ ticker'[h] = ticker[h]
                      /\ loc'[h] = loc[h]
                /\ UNCHANGED << ctxDone, wg, clock, mainPc >>]_vars

\* the second target's cycle has failed and been recorded while the first
\* target, untouched by it, is up and in its next cycle
C20_Witness ==
    /\ lastUpStatus = << "up", "down" >>
    /\ metrics[2].failures >= 1 /\ metrics[1].failures = 0
    /\ pc[1] = "query" /\ logs[1].info = 1
    /\ ~ctxDone

\* C21: a cycle whose ping succeeded and whose query failed added one to the
\* query-failure and the overall-failure counters, left the ping-failure
\* counter alone, set the ping-status gauge to 1 and the query-status and
\* availability gauges to 0, and recorded a non-nil last error.
C21_QueryFailCounters ==
    \A g \in Targets :
        (Returned(g) /\ loc[g].pingOk /\ ~loc[g].up)
           => LET t == loopTarget[g]
                  m == metrics[t]
              IN  /\ loc[g].queried
                  /\ m.queryFailures = pre[g].queryFailures + 1
                  /\ m.failures = pre[g].failures + 1
                  /\ m.pingFailures = pre[g].pingFailures
                  /\ m.pingUp = 1
                  /\ m.queryUp = 0
                  /\ m.up = 0
                  /\ ~LastError[t].isNil
                  /\ LastError[t].msg # ""

\* a query-failed cycle returned after the target had a ping failure and a
\* successful query in earlier cycles
C21_Witness ==
    \E g \in Targets :
        /\ Returned(g) /\ loc[g].pingOk /\ ~loc[g].up
        /\ pre[g].pingFailures = 1
        /\ pre[g].queryUp = 1
        /\ metrics[loopTarget[g]].queryFailures = 1

\* the step in which goroutine g makes the final log call of a cycle that is
\* not its target's first
C22_LaterFinish(g) ==
    /\ pc[g] = "finish" /\ pc'[g] # "finish"
    /\ lastUpStatus[loopTarget[g]] # "nil"

\* the outcome of the cycle that is finishing differs from the previous one's
C22_Differs(g) ==
    lastUpStatus[loopTarget[g]] # (IF loc[g].up THEN "up" ELSE "down")

\* the final log call of the step was made at the given level, once
C22_LoggedAt(g, level) ==
    logs'[g] = [logs[g] EXCEPT ![level] = @ + 1]

\* C22 as claimed: after a target's first cycle, the final log call is at the
\* elevated level when the outcome differs from the previous cycle's and at
\* the routine level when it is the same, in both directions.
C22_LevelFollowsChange ==
    [][\A g \in Targets :
          C22_LaterFinish(g)
             => IF C22_Differs(g)
                THEN C22_LoggedAt(g, "warn")
                ELSE C22_LoggedAt(g, "info")]_vars

\* C22 as the code has it: after a target's first cycle, the final log call
\* is at the elevated level exactly when the outcome changed from up to
\* down; a cycle with the same outcome as the previous one, and a cycle that
\* changed from down to up, log at the routine level.
C22_LevelFollowsFailureChange ==
    [][\A g \in Targets :
          C22_LaterFinish(g)
             => IF C22_Differs(g) /\ ~loc[g].up
                THEN C22_LoggedAt(g, "warn")
                ELSE C22_LoggedAt(g, "info")]_vars

\* a later cycle returned that changed the outcome from down to up, after a
\* cycle that had logged at the elevated level
C22_Witness ==
    \E g \in Targets :
        /\ Returned(g) /\ Completed(g) >= 2
        /\ loc[g].statusChanged /\ loc[g].up
        /\ logs[g].warn >= 1

\* C23: every probe cycle writes exactly one log record, whether it succeeds,
\* fails in the ping phase or fails in the query phase: a cycle is left only
\* by the return that follows its final log call, that step writes one
\* record, and no other step writes any (the Debug calls of the two failure
\* branches are below the logger's level).
C23_OneRecordPerCycle ==
    [][\A g \in Targets :
          /\ (InCycle(g) /\ ~InCycle(g)')
                => (pc[g] = "finish" /\ pc'[g] = "returned")
          /\ Emitted(logs'[g]) =
                Emitted(logs[g])
                  + (IF pc[g] = "finish" /\ pc'[g] = "returned" THEN 1 ELSE 0)]_vars

\* a query-failed cycle returned after a ping-failed one: both failure
\* branches made their Debug call, and two records were written in all
C23_Witness ==
    \E g \in Targets :
        /\ Returned(g) /\ loc[g].queried /\ ~loc[g].up
        /\ logs[g].debug = 2
        /\ logs[g].info + logs[g].warn = 2
        /\ Emitted(logs[g]) = 2

\* the error text carries one of the MySQL codes the MySQL rule names
C24_HasMySQLCode(msg) ==
    Contains(msg, "1045") \/ Contains(msg, "2003") \/ Contains(msg, "2006")

\* C24: for the mysql and tidb families an error whose text carries one of
\* the codes 1045, 2003 or 2006 is classified as the MySQL protocol stage.
C24_MySQLCodesProtocol ==
    (cCalls >= 1 /\ cIn.dbType \in {"mysql", "tidb"}
        /\ C24_HasMySQLCode(cIn.err.msg))
       => cOut[1].stage = StageMySQL

\* s ends with suffix
C25_EndsWith(s, suffix) ==
    /\ Len(s) >= Len(suffix)
    /\ SubSeq(s, Len(s) - Len(suffix) + 1, Len(s)) = suffix

\* the stages analyzeError returns for a non-nil error
C25_Stages ==
    {StageTCP, StageHandshake, StageAuth, StageSQL, StageTimeout, StageOracle,
     StageMySQL, StageUnknown}

\* C25: whatever stage analyzeError returns, the detail ends with the
\* underlying-error suffix, which carries the text of the unwrapped error,
\* when the error wraps another one whose text differs from its own; the
\* detail carries no such suffix when the error wraps nothing or the two
\* texts are equal.
C25_UnderlyingSuffix ==
    cCalls >= 1 =>
        LET err == cIn.err
            d   == cOut[1].details
        IN  /\ cOut[1].stage \in C25_Stages
            /\ IF err.wraps /\ err.inner # err.msg
               THEN C25_EndsWith(d, " ({diceng-cuowu}: " \o err.inner \o ")")
               ELSE ~Contains(d, "{diceng-cuowu}")

\* an Oracle protocol error that wraps an error with another text: the
\* suffix follows the extracted code token
C25_Witness ==
    /\ cCalls >= 1
    /\ cIn.dbType = "oracle"
    /\ cIn.err.wraps /\ cIn.err.inner # cIn.err.msg
    /\ cOut[1].stage = StageOracle
    /\ Contains(cOut[1].details, "ora-12541:) ({diceng-cuowu}: ")

\* the deadline of the cycle goroutine g is running
C26_Deadline(g) == loc[g].start + ProbeTimeout

\* the context part of C26: the deadline of a cycle is fixed when the cycle
\* starts, the cycle's context is done once the process-wide context is
\* cancelled, and the query is issued under the context of the ping
C26_OneContext ==
    [][\A g \in Targets :
          /\ (InCycle(g) /\ InCycle(g)') => loc'[g].start = loc[g].start
          /\ (~InCycle(g) /\ InCycle(g)') => loc'[g].start = clock
          /\ (InCycle(g) /\ ctxDone) => CycleCtxDone(g)
          /\ (pc[g] = "pinged" /\ pc'[g] = "query")
                => loc'[g].doneAtIssue = (ctxDone \/ clock >= C26_Deadline(g))]_vars

\* C26 as claimed, the part about time: while a ping or a query of a cycle
\* is in flight the cycle's deadline, start + probe timeout, has not been
\* passed.
C26_NeverPastTimeout ==
    \A g \in Targets : InFlight(g) => clock <= C26_Deadline(g)

\* the outcome part of C26: a cycle that ended up had its ping back and its
\* query issued before the deadline and before any cancellation, and a
\* query issued under a context that is already done fails
C26_LeftoverOnly ==
    \A g \in Targets :
        /\ (pc[g] \in {"finish", "returned"} /\ loc[g].up)
              => (loc[g].now < C26_Deadline(g) /\ ~loc[g].doneAtIssue)
        /\ (pc[g] \in {"finish", "returned"} /\ loc[g].queried /\ loc[g].doneAtIssue)
              => ~loc[g].up

\* C26 as the code has it: each cycle has one deadline, cycle start + probe
\* timeout, on a context derived from the process-wide one; the ping and the
\* query are issued under that same context, so a query issued after the
\* deadline or after cancellation fails and only a query issued before the
\* deadline can succeed; cancelling the process-wide context makes the
\* context of every cycle in flight done. When the calls return is left to
\* the driver.
C26_SharedDeadline ==
    C26_OneContext /\ []C26_LeftoverOnly

\* the ping of a cycle used up the probe timeout, the query was issued under
\* the context that was done by then, and failed, with no cancellation
C26_Witness ==
    \E g \in Targets :
        /\ Returned(g) /\ loc[g].queried /\ loc[g].doneAtIssue
        /\ ~ctxDone /\ ~loc[g].up
        /\ loc[g].now >= C26_Deadline(g)

\* goroutine g starts a cycle in this step
C27_CycleStarts(g) == ~InCycle(g) /\ InCycle(g)'

\* goroutine g receives a tick in this step
C27_TickReceived(g) == ticker'[g].pending < ticker[g].pending

\* C27: a probe loop starts its first cycle as the first thing it does, when
\* it has created its ticker and before any tick was sent; every later cycle
\* starts in the step that receives one tick, and no tick is received that
\* starts no cycle.
C27_OneCyclePerTick ==
    [][\A g \in Targets :
          /\ (pc[g] = "spawned" /\ pc'[g] # "spawned")
                => /\ C27_CycleStarts(g)
                   /\ ~ticker[g].running /\ ticker'[g].running
                   /\ ticker'[g].pending = 0
                   /\ ticker'[g].next = clock + ProbeInterval
                   /\ loc'[g].start = clock
          /\ (C27_CycleStarts(g) /\ pc[g] # "spawned")
                => /\ pc[g] = "select"
                   /\ ticker[g].pending = 1
                   /\ ticker'[g].pending = 0
          /\ C27_TickReceived(g) => C27_CycleStarts(g)]_vars

\* the second cycle of a loop is at its ping, started by the tick of the
\* instant one interval after the loop started
C27_Witness ==
    \E g \in Targets :
        /\ pc[g] = "ping" /\ Completed(g) = 1
        /\ ticker[g].pending = 0
        /\ loc[g].start = 1 + ProbeInterval
        /\ ~ctxDone

\* goroutine g is past a successful ping in this step: it takes now and
\* goes on to the query
C28_PastPing(g) == pc[g] = "pinged" /\ pc'[g] = "query"

\* C28: lastPingTime of a target changes only in the step after a successful
\* ping of one of its cycles, which sets it to the instant taken then; a
\* cycle whose ping failed returns with lastPingTime as it found it, a cycle
\* whose ping succeeded returns with lastPingTime at that instant also when
\* its query failed, and lastPingTime is zero as long as no ping of the
\* target has succeeded.
C28_LastPingTime ==
    /\ [][\A g \in Targets :
             LET t == loopTarget[g] IN
             /\ C28_PastPing(g)
                   => /\ loc[g].pingOk
                      /\ lastPingTime'[t] = clock
                      /\ loc'[g].now = clock
             /\ (pc[g] # "none" /\ lastPingTime'[t] # lastPingTime[t])
                   => C28_PastPing(g)]_vars
    /\ [](\A g \in Targets :
             LET t == loopTarget[g] IN
             /\ (pc[g] \in {"finish", "returned"} /\ ~loc[g].pingOk)
                   => lastPingTime[t] = loc[g].lastPingTime
             /\ (pc[g] \in {"finish", "returned"} /\ loc[g].pingOk)
                   => (lastPingTime[t] = loc[g].now /\ lastPingTime[t] # ZeroTime)
             /\ (pc[g] # "none" /\ metrics[t].pingUp # 1 /\ Completed(g) = 0
                   /\ pc[g] \in {"spawned", "ping", "finish", "returned"})
                   => lastPingTime[t] = ZeroTime)

\* a cycle returned whose ping succeeded and whose query failed, after a
\* cycle of the same target with an earlier successful ping
C28_Witness ==
    \E g \in Targets :
        /\ Returned(g) /\ loc[g].pingOk /\ ~loc[g].up
        /\ loc[g].lastPingTime # ZeroTime
        /\ lastPingTime[loopTarget[g]] = loc[g].now
        /\ loc[g].now > loc[g].lastPingTime

\* the goroutine holds the mutex, for reading or for writing
C29_Holds(p, m) == p \in m.readers \/ (m.w = p /\ m.held)

\* the goroutine has no part in the mutex
C29_Free(p, m) == p \notin m.readers /\ m.w # p

\* positions in which a goroutine holds a lock and its next step is a plain
\* statement or the release
C29_ShortSection ==
    {"read", "runlock", "write1", "write2", "write3", "unlock1", "unlock2"}

\* the goroutines waiting in RLock or Lock of the mutex of target t
C29_Waiting(t) ==
    {LoopProc(g) : g \in {x \in Targets :
         /\ loopTarget[x] = t
         /\ \/ lockPc[x] = "begin" /\ ~CanRLock(mu[t])
            \/ lockPc[x] \in {"lock1", "lock2"} /\ ~CanLockBegin(mu[t])
            \/ lockPc[x] \in {"acquire1", "acquire2"} /\ ~CanLock(mu[t], LoopProc(x))}}
    \cup
    {HandlerProc(h) : h \in {x \in Handlers :
         hPc[x] = "rlock" /\ HandlerTarget(x) = t /\ ~CanRLock(mu[t])}}

\* the holders of the mutex of target t that are inside a short section,
\* and the writer whose Lock is about to return, the readers having left
C29_ShortHolders(t) ==
    {LoopProc(g) : g \in {x \in Targets :
         /\ loopTarget[x] = t
         /\ \/ C29_Holds(LoopProc(x), mu[t]) /\ lockPc[x] \in C29_ShortSection
            \/ lockPc[x] \in {"acquire1", "acquire2"} /\ CanLock(mu[t], LoopProc(x))}}
    \cup
    {HandlerProc(h) : h \in {x \in Handlers :
         /\ hPc[x] \in C29_ShortSection /\ HandlerTarget(x) = t
         /\ C29_Holds(HandlerProc(x), mu[t])}}

\* the lock discipline in a state
C29_Discipline ==
    /\ \A t \in Targets : mu[t].held => (mu[t].readers = {} /\ mu[t].w # NoProc)
    /\ \A g \in Targets :
          LET p == LoopProc(g)
              m == mu[loopTarget[g]]
          IN  /\ lockPc[g] \in {"read", "runlock"} => (p \in m.readers /\ ~m.held)
              /\ lockPc[g] \in {"write1", "write2", "write3", "unlock1", "unlock2"}
                    => (m.w = p /\ m.held /\ m.readers = {})
              /\ lockPc[g] \in {"begin", "ping", "lock1", "query", "lock2", "select"}
                    => \A t \in Targets : C29_Free(p, mu[t])
    /\ \A h \in Handlers :
          LET p == HandlerProc(h) IN
          /\ hPc[h] \in {"read", "runlock"}
                => (p \in mu[HandlerTarget(h)].readers /\ ~mu[HandlerTarget(h)].held)
          /\ hPc[h] \in {"idle", "rlock"} => \A t \in Targets : C29_Free(p, mu[t])
    /\ \A t \in Targets :
          \A p \in C29_Waiting(t) :
             \E q \in C29_ShortHolders(t) : q # p

\* C29: the health state of a target changes only in a step of the loop that
\* holds the target's mutex exclusively, and it is read, by the loop and by
\* GetTargetsInfo, only with the read lock held; no goroutine holds a mutex
\* while a ping or a query is in flight or after probeOnce or GetTargetsInfo
\* has returned; and whoever waits for a mutex waits for a holder that is in
\* a short section of plain statements, or for a writer whose Lock is about
\* to return, so that no state is a deadlock.
C29_LockDiscipline ==
    /\ [][\A t \in Targets :
             << lastPingTime'[t], lastUpStatus'[t], LastError'[t] >>
                # << lastPingTime[t], lastUpStatus[t], LastError[t] >>
             => /\ mu[t].held /\ mu[t].readers = {}
                /\ mu'[t] = mu[t]
                /\ \E g \in Targets : mu[t].w = LoopProc(g) /\ loopTarget[g] = t]_vars
    /\ []C29_Discipline

\* a request waits in RLock for a target whose loop holds the write lock in
\* its health-state update, while the other request reads the other target
C29_Witness ==
    \E g \in Targets, h \in Handlers, k \in Handlers :
        /\ lockPc[g] = "write2"
        /\ hPc[h] = "rlock" /\ HandlerTarget(h) = loopTarget[g]
        /\ HandlerProc(h) \in C29_Waiting(loopTarget[g])
        /\ k # h /\ hPc[k] = "read" /\ HandlerTarget(k) # loopTarget[g]

\* clamp(x, lo, hi)
C30_Clamp(x, lo, hi) == IF x < lo THEN lo ELSE IF x > hi THEN hi ELSE x

\* C30 as claimed: the connect timeout is clamp(2 x probe timeout, 3, 10)
\* seconds; compared in model units, where the probe timeout is given.
C30_ClampOfDouble ==
    connectTimeout # << >>
       => connectTimeout[1] * UnitsPerSecond
             = C30_Clamp(2 * vCfg.ProbeTimeout,
                         MinConnectTimeout * UnitsPerSecond,
                         MaxConnectTimeout * UnitsPerSecond)

\* C30 as the code has it: the connect timeout is a whole number of seconds
\* between 3 and 10; it is 3 when twice the probe timeout is below 4 s, 10
\* when twice the probe timeout is 10 s or more, and otherwise twice the
\* probe timeout with the fraction of a second dropped.
C30_ClampOfTruncatedDouble ==
    connectTimeout # << >>
       => LET c == connectTimeout[1]
              d == 2 * vCfg.ProbeTimeout
          IN  /\ c \in MinConnectTimeout..MaxConnectTimeout
              /\ d < (MinConnectTimeout + 1) * UnitsPerSecond => c = MinConnectTimeout
              /\ d >= MaxConnectTimeout * UnitsPerSecond => c = MaxConnectTimeout
              /\ (d >= MinConnectTimeout * UnitsPerSecond
                     /\ d < MaxConnectTimeout * UnitsPerSecond)
                    => (c * UnitsPerSecond <= d /\ d < (c + 1) * UnitsPerSecond)

\* a probe timeout of 2.3 s gave a connect timeout of 4 s
C30_Witness ==
    /\ connectTimeout = << 4 >>
    /\ vCfg.ProbeTimeout = 2 * UnitsPerSecond + 6

\* the address the claim names for a host that is not a literal address
C31_LookedUp(host, lookup) ==
    IF ~lookup.err /\ Len(lookup.ips) > 0
    THEN IF \E i \in 1..Len(lookup.ips) : lookup.ips[i].v4
         THEN LET first == CHOOSE i \in 1..Len(lookup.ips) :
                              /\ lookup.ips[i].v4
                              /\ \A j \in 1..(i - 1) : ~lookup.ips[j].v4
              IN  lookup.ips[first].text
         ELSE lookup.ips[1].text
    ELSE host

C32_Constructed == mainPc \notin {"construct", "fatal"}

\* C32: when newTarget fails for some database NewProber has cancelled its
\* context, main ends, and no probe loop is ever started; when NewProber
\* returns a Prober it holds one target per configured database, in the
\* order of the configuration, each with an open connection, and the list
\* of targets never changes afterwards.
C32_AllOrNothing ==
    /\ [](mainPc = "fatal"
            => /\ ctxDone
               /\ Len(pTargets) < Len(Databases)
               /\ wg = 0
               /\ \A g \in Targets : pc[g] = "none")
    /\ [](C32_Constructed
            => /\ pTargets = [i \in 1..Len(Databases) |-> i]
               /\ \A i \in 1..Len(Databases) : dbState[i] # "none")
    /\ [][C32_Constructed => (pTargets' = pTargets /\ mainPc' # "fatal")]_vars

\* newTarget failed for the second database after the first target was
\* built: the context is cancelled and no loop runs
C32_Witness ==
    /\ mainPc = "fatal"
    /\ Len(pTargets) = 1
    /\ dbState[1] = "open"
    /\ ctxDone
    /\ clock > 1

\* C33: with ProbeTimeout <= ProbeInterval, every tick received at the
\* instant it is sent and every ping successful, no reconnect is ever
\* recorded, however long the pings take: the instant taken after a
\* successful ping is at most 2 x ProbeInterval after the one taken after
\* the previous successful ping.
C33_NoReconnectWhenPrompt ==
    /\ ProbeTimeout <= ProbeInterval
    /\ \A t \in Targets :
          dbState[t] # "none"
             => (metrics[t].reconnects = 0 /\ metrics[t].pingFailures = 0)
    /\ \A g \in Targets :
          (pc[g] \in {"query", "finish", "returned"} /\ loc[g].lastPingTime # ZeroTime)
             => /\ loc[g].now - loc[g].lastPingTime <= 2 * ProbeInterval
                /\ ~IsReconnect(loc[g].lastPingTime, loc[g].now, loc[g].pingDuration)

\* a later cycle returned whose ping took more than 50 ms and ended exactly
\* 2 x ProbeInterval after the previous successful ping
C33_Witness ==
    \E g \in Targets :
        /\ Returned(g)
        /\ loc[g].lastPingTime # ZeroTime
        /\ loc[g].pingDuration > ReconnectPingThreshold
        /\ loc[g].now - loc[g].lastPingTime = 2 * ProbeInterval
        /\ metrics[loopTarget[g]].reconnects = 0

\* the cycle of goroutine g failed with the error of a cancelled context
C34_Aborted(g) ==
    /\ Returned(g) /\ ctxDone /\ ~loc[g].up
    /\ Contains(loc[g].err.msg, ErrCanceled.msg)

\* C34: a cycle whose ping or query was aborted by the cancellation of the
\* process-wide context is recorded as a failed cycle: availability 0, one
\* more failure of the aborted phase and one more overall failure, and a
\* LastError, also for a target whose database is reachable.
C34_AbortRecordedAsFailure ==
    \A g \in Targets :
        C34_Aborted(g)
           => LET t == loopTarget[g]
                  m == metrics[t]
              IN  /\ m.up = 0
                  /\ m.failures = pre[g].failures + 1
                  /\ IF loc[g].pingOk
                     THEN /\ m.queryFailures = pre[g].queryFailures + 1
                          /\ m.pingFailures = pre[g].pingFailures
                     ELSE /\ m.pingFailures = pre[g].pingFailures + 1
                          /\ m.queryFailures = pre[g].queryFailures
                  /\ ~LastError[t].isNil
                  /\ lastUpStatus[t] = "down"

\* the query of a reachable target was aborted by Stop after its ping had
\* succeeded, and the cycle returned
C34_Witness ==
    \E g \in Targets :
        /\ C34_Aborted(g)
        /\ loc[g].pingOk
        /\ loopTarget[g] \in Reachable
        /\ metrics[loopTarget[g]].queryFailures = 1

\* what a goroutine that holds the lock of target t can see of its status
C35_Consistent(t) ==
    IF lastUpStatus[t] = "nil"
    THEN LastError[t].isNil
    ELSE LastError[t].isNil <=> (lastUpStatus[t] = "up")

\* C35: in every state in which no writer is inside a critical section of
\* target t, which are the states a holder of the lock can observe,
\* LastError is nil exactly when lastUpStatus is up once lastUpStatus is
\* set, and LastError is nil while lastUpStatus is unset; the two fields
\* differ from this only between the two writes of one critical section.
C35_ErrorMatchesStatus ==
    /\ \A t \in Targets : ~mu[t].held => C35_Consistent(t)
    /\ \A t \in Targets :
          ~C35_Consistent(t)
             => \E g \in Targets : loopTarget[g] = t /\ lockPc[g] = "write3"

\* a request reads a target whose last cycle was down while the loop of the
\* other target is between its two writes, its fields not matching
C35_Witness ==
    \E h \in Handlers, g \in Targets :
        /\ hPc[h] = "read"
        /\ lastUpStatus[HandlerTarget(h)] = "down"
        /\ ~LastError[HandlerTarget(h)].isNil
        /\ lockPc[g] = "write3"
        /\ ~C35_Consistent(loopTarget[g])

\* the three failure counters of target t
C36_Counters(t) ==
    << metrics[t].failures, metrics[t].pingFailures, metrics[t].queryFailures >>

\* at the end of a cycle the overall-failure counter is the sum of the two
\* phase counters, and the cycle added one to it exactly when it was down
C36_SumAtBoundary ==
    \A g \in Targets :
        Returned(g)
           => LET m == metrics[loopTarget[g]] IN
              /\ m.failures = m.pingFailures + m.queryFailures
              /\ m.failures = pre[g].failures + (IF loc[g].up THEN 0 ELSE 1)
              /\ m.pingFailures + m.queryFailures
                    = pre[g].pingFailures + pre[g].queryFailures
                         + (IF loc[g].up THEN 0 ELSE 1)

\* C36: after every completed cycle the overall-failure counter equals the
\* ping-failure counter plus the query-failure counter, a down cycle having
\* added exactly one to it and an up cycle nothing; and no step decreases
\* any of the three counters.
C36_FailureCountersAdd ==
    /\ []C36_SumAtBoundary
    /\ [][\A t \in Targets :
             /\ metrics'[t].failures >= metrics[t].failures
             /\ metrics'[t].pingFailures >= metrics[t].pingFailures
             /\ metrics'[t].queryFailures >= metrics[t].queryFailures]_vars

\* a successful cycle returned after a ping-failure cycle and a query-failure
\* cycle of the same target: 2 = 1 + 1, and the up cycle added nothing
C36_Witness ==
    \E g \in Targets :
        /\ Returned(g) /\ loc[g].up
        /\ C36_Counters(loopTarget[g]) = << 2, 1, 1 >>
        /\ pre[g].failures = 2

\* C37: after every completed cycle of a target the availability gauge is 1
\* exactly when the ping-status gauge and the query-status gauge are both 1,
\* also after a ping-failure cycle, which does not touch the query-status
\* gauge.
C37_UpIsPingAndQuery ==
    \A g \in Targets :
        Returned(g)
           => LET m == metrics[loopTarget[g]] IN
              /\ m.up \in {0, 1}
              /\ (m.up = 1) <=> (m.pingUp = 1 /\ m.queryUp = 1)

\* a ping-failure cycle returned with the query-status gauge still at the 1
\* of an earlier cycle
C37_Witness ==
    \E g \in Targets :
        /\ Returned(g) /\ ~loc[g].pingOk
        /\ metrics[loopTarget[g]].queryUp = 1
        /\ pre[g].queryUp = 1
        /\ metrics[loopTarget[g]].pingUp = 0
        /\ metrics[loopTarget[g]].up = 0

(***************************************************************************)
(* Harness of the error path of probeOnce: the driver error of the ping or *)
(* the query is classified and wrapped, and the final log call classifies  *)
(* the wrapped error again                                                 *)
(***************************************************************************)
\* the targets of the harness: the configured ones and a TiDB reached by name
WrapTargets ==
    { [cfg |-> AllDatabases[t], ip |-> AllDatabases[t].Host] : t \in Targets }
       \cup { [cfg |-> [Name |-> "tidb1", Type |-> "tidb",
                        Host |-> "sql01.internal", Port |-> 4000,
                        ServiceName |-> ""],
               ip  |-> "10.0.0.3"] }

Phases == {"ping", "query"}

\* the ping-failure branch: failureStage and err as it leaves the branch
WrapPingError(originalErr, cfg, ip) ==
    LET a == analyzeError(originalErr, cfg.Type)
    IN  [stage |-> a.stage,
         err   |-> NewError(PingErrText(a.stage, a.details, cfg, ip))]

\* the query-failure branch: failureStage and err as it leaves the branch
WrapQueryError(originalErr, cfg, ip) ==
    LET a     == analyzeError(originalErr, cfg.Type)
        stage == QueryFailureStage(a.stage)
    IN  [stage |-> stage,
         err   |-> NewError(QueryErrText(stage, a.details,
                                         DefaultQuery(cfg.Type), cfg, ip))]

\* the failure_stage of the final log call: analyzeError on the cycle's err,
\* which is the wrapped error
FinalLogStage(cycle, dbType) == analyzeError(cycle.err, dbType).stage

\* a ping or a query fails with a driver error, which the branch wraps
WrapCycleError ==
    /\ wOut = << >>
    /\ \E originalErr \in ClassifierErrors, tg \in WrapTargets, phase \in Phases :
        /\ wIn' = [err |-> originalErr, cfg |-> tg.cfg, ip |-> tg.ip,
                   phase |-> phase]
        /\ wOut' = << IF phase = "ping"
                      THEN WrapPingError(originalErr, tg.cfg, tg.ip)
                      ELSE WrapQueryError(originalErr, tg.cfg, tg.ip) >>
    /\ UNCHANGED << proberVars, classifyVars, validateVars, lockVars, dsnVars,
                    resolveVars >>

\* the final log call of the failed cycle
FinalLogCall ==
    /\ Len(wOut) = 1
    /\ wOut' = Append(wOut, [stage |-> FinalLogStage(wOut[1], wIn.cfg.Type),
                             err   |-> wOut[1].err])
    /\ UNCHANGED << wIn, proberVars, classifyVars, validateVars, lockVars,
                    dsnVars, resolveVars >>

NextWrap == WrapCycleError \/ FinalLogCall

InitWrap ==
    /\ InitProber(1)
    /\ InitClassifier /\ InitValidator /\ InitResolver /\ InitWrapper

SpecWrap == InitWrap /\ [][NextWrap]_vars

\* the stage analyzeError assigns to the raw driver error of the cycle, with
\* unknown replaced by query execution in the query phase
C38_RawStage ==
    LET stage == analyzeError(wIn.err, wIn.cfg.Type).stage
    IN  IF wIn.phase = "query" THEN QueryFailureStage(stage) ELSE stage

\* C38 as claimed: the failure stage of the final log event of a failed
\* cycle equals the stage analyzeError assigned to the raw driver error of
\* that cycle, for every raw error, family, host and phase.
C38_StageKept ==
    Len(wOut) = 2 => wOut[2].stage = C38_RawStage

====
